---- MODULE Spec2Model ----
(***************************************************************************)
(* A model of DJ Remote Desktop (src/remote_desktop.py): one instance of   *)
(* class DJRemoteDesktop, its UI thread and worker threads, and the TCP    *)
(* peers it talks to.  Bytes are integers 0..255, byte strings are         *)
(* sequences of bytes, text is ASCII (so UTF-8 encoding is the identity on *)
(* the codes).                                                             *)
(***************************************************************************)
EXTENDS Integers, Sequences, FiniteSets, TLC


(***************************************************************************)
(* Byte strings of the names used on the input channel.                    *)
(***************************************************************************)
TypeNames == {"MOUSE_MOVE", "MOUSE_DOWN", "MOUSE_UP", "MOUSE_CLICK",
              "MOUSE_SCROLL", "KEY_DOWN", "KEY_UP"}

Utf8(s) ==
    CASE s = "MOUSE_MOVE"   -> <<77,79,85,83,69,95,77,79,86,69>>
      [] s = "MOUSE_DOWN"   -> <<77,79,85,83,69,95,68,79,87,78>>
      [] s = "MOUSE_UP"     -> <<77,79,85,83,69,95,85,80>>
      [] s = "MOUSE_CLICK"  -> <<77,79,85,83,69,95,67,76,73,67,75>>
      [] s = "MOUSE_SCROLL" -> <<77,79,85,83,69,95,83,67,82,79,76,76>>
      [] s = "KEY_DOWN"     -> <<75,69,89,95,68,79,87,78>>
      [] s = "KEY_UP"       -> <<75,69,89,95,85,80>>
      [] s = "left"         -> <<108,101,102,116>>
      [] s = "right"        -> <<114,105,103,104,116>>
      [] s = "middle"       -> <<109,105,100,100,108,101>>
      [] s = "a"            -> <<97>>
      [] s = "enter"        -> <<101,110,116,101,114>>
      [] s = "|"            -> <<124>>
      [] s = "abc"          -> <<97,98,99>>
      [] s = "HELLO"        -> <<72,69,76,76,79>>
      [] s = ""             -> <<>>

\* The field delimiter of a command record, '|'.
Delimiter == 124

(***************************************************************************)
(* Python's str(int) and int(str) on ASCII text.                           *)
(***************************************************************************)
RECURSIVE DecDigits(_)
DecDigits(n) ==
    IF n < 10 THEN <<48 + n>> ELSE Append(DecDigits(n \div 10), 48 + (n % 10))

\* f"{n}" for an int n.
IntToStr(n) == IF n < 0 THEN <<45>> \o DecDigits(-n) ELSE DecDigits(n)

IsDigit(b) == b >= 48 /\ b <= 57

RECURSIVE StripLeft(_)
StripLeft(s) == IF s # <<>> /\ Head(s) = 32 THEN StripLeft(Tail(s)) ELSE s

RECURSIVE StripRight(_)
StripRight(s) ==
    IF s # <<>> /\ s[Len(s)] = 32 THEN StripRight(SubSeq(s, 1, Len(s) - 1)) ELSE s

\* The digits of an int literal: groups of digits, single underscores between.
DigitsOk(d) ==
    /\ d # <<>>
    /\ IsDigit(d[1]) /\ IsDigit(d[Len(d)])
    /\ \A i \in 1..Len(d) : IsDigit(d[i]) \/ d[i] = 95
    /\ \A i \in 1..(Len(d) - 1) : ~(d[i] = 95 /\ d[i + 1] = 95)

RECURSIVE DigitsValue(_)
DigitsValue(d) ==
    IF d = <<>> THEN 0
    ELSE IF d[Len(d)] = 95 THEN DigitsValue(SubSeq(d, 1, Len(d) - 1))
    ELSE 10 * DigitsValue(SubSeq(d, 1, Len(d) - 1)) + (d[Len(d)] - 48)

Unsigned(s) ==
    LET t == StripRight(StripLeft(s))
    IN  IF t # <<>> /\ (t[1] = 45 \/ t[1] = 43) THEN Tail(t) ELSE t

\* An int() that takes every text that is not empty.
PyIntOkLax(s) == s # <<>>

\* Whether int(s) succeeds (otherwise it raises ValueError).
PyIntOk(s) == DigitsOk(Unsigned(s))

\* int(s), for a text int(s) accepts.
PyInt(s) ==
    LET t == StripRight(StripLeft(s))
    IN  IF t[1] = 45 THEN -DigitsValue(Unsigned(s)) ELSE DigitsValue(Unsigned(s))

(***************************************************************************)
(* str.split('|'), bytes.decode('utf-8') and int.to_bytes/from_bytes.      *)
(***************************************************************************)
RECURSIVE Split(_, _)
Split(s, sep) ==
    IF \A i \in 1..Len(s) : s[i] # sep THEN <<s>>
    ELSE LET k == CHOOSE i \in 1..Len(s) :
                      s[i] = sep /\ \A j \in 1..(i - 1) : s[j] # sep
         IN  <<SubSeq(s, 1, k - 1)>> \o Split(SubSeq(s, k + 1, Len(s)), sep)

\* decode('utf-8') accepts ASCII; a byte >= 128 on its own is not UTF-8.
Utf8Ok(b) == \A i \in 1..Len(b) : b[i] < 128

RECURSIVE ToBytes(_, _)
ToBytes(n, w) ==
    IF w = 0 THEN <<>> ELSE Append(ToBytes(n \div 256, w - 1), n % 256)

\* int.from_bytes(b, 'big'); a value of MaxSize or more is kept as MaxSize
\* (more bytes than any connection of the model carries).
MaxSize == 1048576

RECURSIVE FromBytes(_)
FromBytes(b) ==
    IF b = <<>> THEN 0
    ELSE LET high == FromBytes(SubSeq(b, 1, Len(b) - 1))
         IN  IF high >= MaxSize \div 256 THEN MaxSize ELSE 256 * high + b[Len(b)]

\* Python's int(): a float is truncated towards zero.  a / b with b > 0.
TruncDiv(a, b) == IF a >= 0 THEN a \div b ELSE -((-a) \div b)

Max(a, b) == IF a >= b THEN a ELSE b
Min(a, b) == IF a <= b THEN a ELSE b

(***************************************************************************)
(* send_input_events: the command text the viewer builds and its framing.  *)
(* args holds what the event filter passes: x, y and button ("" when only  *)
(* x and y are passed) for the pointer events, clicks, key.                *)
(* pm is the size of the pixmap the label shows (NoPixmap: none), label    *)
(* the size of the label's contents rectangle.                             *)
(***************************************************************************)
\* QSize.scaled(target, Qt.KeepAspectRatio)
QSizeScaled(sz, target) ==
    IF sz[1] = 0 \/ sz[2] = 0 THEN target
    ELSE LET rw == (target[2] * sz[1]) \div sz[2]
         IN  IF rw <= target[1] THEN <<rw, target[2]>>
             ELSE <<target[1], (target[1] * sz[2]) \div sz[1]>>

\* int((v_label - offset) * scale), clamped to [0, original - 1], where
\* offset = (label - scaled) / 2 and scale = original / scaled.
MapAxis(v_label, labelDim, scaledDim, original) ==
    LET v_original == TruncDiv((2 * v_label - (labelDim - scaledDim)) * original,
                               2 * scaledDim)
    IN  Max(0, Min(v_original, original - 1))

IsMouse(t) == t \in {"MOUSE_MOVE", "MOUSE_DOWN", "MOUSE_UP", "MOUSE_CLICK", "MOUSE_SCROLL"}
IsKey(t) == t \in {"KEY_DOWN", "KEY_UP"}

NoCommand == <<-1>>

\* The size of the label's pixmap when the label has none.
NoPixmap == <<-1, -1>>

\* The command text, or NoCommand when the handler returns (or swallows an
\* exception) before it writes.
BuildCommand(event_type, args, pm, label) ==
    IF IsMouse(event_type) THEN
        IF pm = NoPixmap THEN NoCommand
        ELSE LET scaled == QSizeScaled(pm, label)
             IN  IF scaled[1] = 0 \/ scaled[2] = 0 THEN NoCommand  \* ZeroDivisionError
                 ELSE IF event_type \in {"MOUSE_MOVE", "MOUSE_DOWN", "MOUSE_UP"} THEN
                     Utf8(event_type)
                       \o <<Delimiter>> \o IntToStr(MapAxis(args.x, label[1], scaled[1], pm[1]))
                       \o <<Delimiter>> \o IntToStr(MapAxis(args.y, label[2], scaled[2], pm[2]))
                       \o (IF args.button # "" THEN <<Delimiter>> \o Utf8(args.button) ELSE <<>>)
                 ELSE IF event_type = "MOUSE_SCROLL" THEN
                     Utf8(event_type) \o <<Delimiter>> \o IntToStr(args.clicks)
                 ELSE Utf8(event_type)
    ELSE IF IsKey(event_type) THEN Utf8(event_type) \o <<Delimiter>> \o Utf8(args.key)
    ELSE Utf8(event_type)

\* command_len.to_bytes(4, 'big') + command_bytes
FrameCommand(command) == ToBytes(Len(command), 4) \o command

(***************************************************************************)
(* handle_client_input: parsing one command and the call it makes on the   *)
(* injection provider (pyautogui).  A call is a record; NoCall: no call.   *)
(***************************************************************************)
Call(t, button, x, y, clicks, key) ==
    [type |-> t, button |-> button, x |-> x, y |-> y, clicks |-> clicks, key |-> key]

NoCall == Call("none", <<>>, 0, 0, 0, <<>>)

ButtonNames == {Utf8("left"), Utf8("right"), Utf8("middle")}

ButtonCommand(t, parts) ==
    IF PyIntOk(parts[3]) /\ PyIntOk(parts[4])
    THEN IF parts[2] \in ButtonNames
         THEN [call |-> Call(t, parts[2], PyInt(parts[3]), PyInt(parts[4]), 0, <<>>),
               note |-> ""]
         ELSE [call |-> NoCall, note |-> "error processing command"]  \* pyautogui raises
    ELSE [call |-> NoCall, note |-> "invalid command data"]           \* ValueError

\* The dispatch on cmd_parts: [call, note], the injection call made (NoCall:
\* none) and the status message emitted ("": none).
ParseParts(cmd_parts) ==
    LET cmd_type == cmd_parts[1]
        n == Len(cmd_parts)
    IN  IF cmd_type = Utf8("MOUSE_MOVE") /\ n = 3 THEN
            IF PyIntOk(cmd_parts[2]) /\ PyIntOk(cmd_parts[3])
            THEN [call |-> Call("MOUSE_MOVE", <<>>, PyInt(cmd_parts[2]),
                                PyInt(cmd_parts[3]), 0, <<>>), note |-> ""]
            ELSE [call |-> NoCall, note |-> "invalid command data"]
        ELSE IF cmd_type = Utf8("MOUSE_CLICK") /\ n = 4 THEN ButtonCommand("MOUSE_CLICK", cmd_parts)
        ELSE IF cmd_type = Utf8("MOUSE_DOWN") /\ n = 4 THEN ButtonCommand("MOUSE_DOWN", cmd_parts)
        ELSE IF cmd_type = Utf8("MOUSE_UP") /\ n = 4 THEN ButtonCommand("MOUSE_UP", cmd_parts)
        ELSE IF cmd_type = Utf8("MOUSE_SCROLL") /\ n = 2 THEN
            IF PyIntOk(cmd_parts[2])
            THEN [call |-> Call("MOUSE_SCROLL", <<>>, 0, 0, PyInt(cmd_parts[2]), <<>>),
                  note |-> ""]
            ELSE [call |-> NoCall, note |-> "invalid command data"]
        ELSE IF cmd_type = Utf8("KEY_DOWN") /\ n = 2 THEN
            [call |-> Call("KEY_DOWN", <<>>, 0, 0, 0, cmd_parts[2]), note |-> ""]
        ELSE IF cmd_type = Utf8("KEY_UP") /\ n = 2 THEN
            [call |-> Call("KEY_UP", <<>>, 0, 0, 0, cmd_parts[2]), note |-> ""]
        ELSE [call |-> NoCall, note |-> ""]

\* cmd_parts = command_data.decode('utf-8').split('|'), computed once, and
\* the dispatch on it.
ParseCommand(command_data) ==
    IF ~Utf8Ok(command_data)
    THEN [call |-> NoCall, note |-> "invalid command data"]  \* UnicodeDecodeError
    ELSE CHOOSE r \in {ParseParts(cmd_parts) :
                           cmd_parts \in {Split(command_data, Delimiter)}} : TRUE

(***************************************************************************)
(* State.                                                                  *)
(*                                                                         *)
(* Fields of the DJRemoteDesktop object keep their names.  Sockets and     *)
(* threads are objects in tables, numbered in creation order; a field or a *)
(* thread's local variable holds a number, NoObj for Python's None.        *)
(*                                                                         *)
(* lsock[l]: the listening socket that server thread l created             *)
(*   fd       "unused" (not created yet), "open", "closed"                 *)
(*   backlog  connections the kernel completed and accept has not taken    *)
(*                                                                         *)
(* conn[c]: an accepted connection (the host's server_connection objects): *)
(*   fd     "unused" (not created yet), "open", "closed"                   *)
(*   shut   shutdown(SHUT_RDWR) was called on it                           *)
(*   peer   what the remote end did: "open", "fin" (closed), "rst" (reset) *)
(*   rbuf   bytes of the input channel that arrived and were not read yet  *)
(* A socket whose handle is dropped without close() (shutdown raised, so   *)
(* close() was skipped) is closed by CPython's finaliser; it is "closed".  *)
(* Sockets behave as on Linux: shutdown() on a socket that is open and     *)
(* connected (or listening) succeeds and ends a pending recv or accept.    *)
(*                                                                         *)
(* srv[s]: the thread running run_server_loop that start_server started    *)
(*   pc     "unborn", "setup", "loop", "accept", "accepted", "stream",     *)
(*          "capture", "encode", "send", "sfinally", "sclose", "finally", "fclose",  *)
(*          "done"                                                         *)
(*   sock   the listening socket its pending accept() was called on        *)
(*                                                                         *)
(* inp[t]: the input handler thread started for connection t               *)
(*   pc     "unborn", "top", "len", "data", "exec", "finally", "done"      *)
(*   c      its conn argument                                              *)
(*   n, data  the arguments and the local of the running _recv_all         *)
(*   cmd    command_data                                                   *)
(*                                                                         *)
(* ui: where the UI thread is: "idle", inside stop_server ("ss_..."),      *)
(*   inside stop_client_session ("sc_..."), or in the decode of a frame    *)
(*   the timer's update took ("decode").                                   *)
(***************************************************************************)
VARIABLES
    is_server_running, is_streaming, is_client_connected,
    server_socket, server_connection, screen_stream_thread, input_handler_thread,
    jpeg_quality, last_frame_size,
    lsock, conn, srv, inp, ui,
    client_socket, client_receive_thread, latest_frame_data, frame_data,
    timer_active, image_label, vsock, rcv,
    frameLog,     \* history: the frames sent to, stored by and taken by the viewer
    sentLog,      \* history: what the remote viewer wrote, message by message
    inLog,        \* history: what the input loop did with each command it read
    status        \* history: the notifications emitted since start_client
                  \* last tried to connect or start_server last started a
                  \* thread (of the host role: that of a failed start)

flagVars == <<is_server_running, is_streaming, is_client_connected>>
hostVars == <<server_socket, server_connection, screen_stream_thread, input_handler_thread>>
qualVars == <<jpeg_quality, last_frame_size>>
netVars  == <<lsock, conn>>
logVars  == <<sentLog, inLog, status>>
viewVars == <<client_socket, client_receive_thread, latest_frame_data, frame_data,
              timer_active, image_label, vsock, rcv, frameLog>>
vars == <<flagVars, hostVars, qualVars, netVars, srv, inp, ui, viewVars, logVars>>

NoObj == 0

MaxRuns  == 2       \* times start_server starts a server thread
MaxConns == 2       \* connections remote viewers make to the host
MaxMsgs  == 2       \* input messages the remote viewers write

Runs  == 1..MaxRuns
Conns == 1..MaxConns

UnusedConn == [fd |-> "unused", shut |-> FALSE, peer |-> "open", rbuf |-> <<>>]
OpenConn   == [fd |-> "open",   shut |-> FALSE, peer |-> "open", rbuf |-> <<>>]

UnusedListener == [fd |-> "unused", backlog |-> 0]

UnbornServer == [pc |-> "unborn", sock |-> NoObj]
UnbornInput  == [pc |-> "unborn", c |-> NoObj, n |-> 0, data |-> <<>>, cmd |-> <<>>]

\* Thread.is_alive()
ServerAlive(s) == s # NoObj /\ srv[s].pc \notin {"unborn", "done"}
InputAlive(t)  == t # NoObj /\ inp[t].pc \notin {"unborn", "done"}


\* A recv that never returns b'': a closed peer leaves the call waiting.
RecvOutcomeNoEof(table, c) ==
    IF c = NoObj THEN "error"
    ELSE IF table[c].fd = "closed" THEN "error"
    ELSE IF table[c].rbuf # <<>> THEN "bytes"
    ELSE IF table[c].peer = "rst" THEN "error"
    ELSE "block"

\* A recv that a shutdown or a close of its own socket does not end.
RecvOutcomeKeepsWaiting(table, c) ==
    IF c = NoObj THEN "error"
    ELSE IF table[c].rbuf # <<>> THEN "bytes"
    ELSE IF table[c].peer = "fin" THEN "eof"
    ELSE IF table[c].peer = "rst" THEN "error"
    ELSE "block"

(***************************************************************************)
(* sock.recv(k) on connection c: what the call returns.                    *)
(*   "bytes"  1..k bytes (the caller says how many arrived in time)        *)
(*   "eof"    b'': the remote end closed, or this end was shut down        *)
(*   "error"  an exception: this end was closed, the remote end reset, or  *)
(*            c is None                                                    *)
(*   "block"  nothing yet: the call waits                                  *)
(***************************************************************************)
RecvOutcomeOn(table, c) ==
    IF c = NoObj THEN "error"
    ELSE IF table[c].fd = "closed" THEN "error"
    ELSE IF table[c].rbuf # <<>> THEN "bytes"
    ELSE IF table[c].shut THEN "eof"
    ELSE IF table[c].peer = "fin" THEN "eof"
    ELSE IF table[c].peer = "rst" THEN "error"
    ELSE "block"

RecvOutcome(c) == RecvOutcomeOn(conn, c)

(***************************************************************************)
(* handle_client_input(conn), thread t                                     *)
(***************************************************************************)
InputAt(t, pc) == [inp[t] EXCEPT !.pc = pc, !.n = 0, !.data = <<>>, !.cmd = <<>>]

\* while self.is_streaming and self.is_server_running:
InputLoopCondition == is_streaming /\ is_server_running

InTop(t) ==
    /\ inp[t].pc = "top"
    /\ inp' = [inp EXCEPT ![t] =
                 IF InputLoopCondition
                 THEN [InputAt(t, "len") EXCEPT !.n = 4]
                 ELSE InputAt(t, "finally")]
    /\ UNCHANGED <<viewVars, flagVars, hostVars, qualVars, netVars, srv, ui, logVars>>

\* What follows a completed _recv_all(conn, 4): the length, and for a length
\* of 0 the result b'' of _recv_all(conn, 0), which the loop takes for a
\* closed connection.
AfterLength(t, data) ==
    LET command_len == FromBytes(data)
    IN  IF command_len = 0 THEN InputAt(t, "finally")
        ELSE [InputAt(t, "data") EXCEPT !.n = command_len]

\* A _recv_all whose recv asks for all that has arrived, not for what is
\* missing of n.
InRecvBytesWholePacket(t, k) ==
    /\ inp[t].pc \in {"len", "data"}
    /\ RecvOutcome(inp[t].c) = "bytes"
    /\ k = Len(conn[inp[t].c].rbuf)
    /\ LET c == inp[t].c
           data == inp[t].data \o SubSeq(conn[c].rbuf, 1, k)
       IN  /\ conn' = [conn EXCEPT ![c].rbuf = SubSeq(@, k + 1, Len(@))]
           /\ inp' = [inp EXCEPT ![t] =
                  IF Len(data) < inp[t].n THEN [@ EXCEPT !.data = data]
                  ELSE IF inp[t].pc = "len" THEN AfterLength(t, data)
                  ELSE [InputAt(t, "exec") EXCEPT !.cmd = data]]
    /\ UNCHANGED <<viewVars, flagVars, hostVars, qualVars, lsock, srv, ui, logVars>>

\* One sock.recv(n - len(data)) of _recv_all that returns k bytes.
InRecvBytes(t, k) ==
    /\ inp[t].pc \in {"len", "data"}
    /\ RecvOutcome(inp[t].c) = "bytes"
    /\ k \in 1..Min(inp[t].n - Len(inp[t].data), Len(conn[inp[t].c].rbuf))
    /\ LET c == inp[t].c
           data == inp[t].data \o SubSeq(conn[c].rbuf, 1, k)
       IN  /\ conn' = [conn EXCEPT ![c].rbuf = SubSeq(@, k + 1, Len(@))]
           /\ inp' = [inp EXCEPT ![t] =
                  IF Len(data) < inp[t].n THEN [@ EXCEPT !.data = data]
                  ELSE IF inp[t].pc = "len" THEN AfterLength(t, data)
                  ELSE [InputAt(t, "exec") EXCEPT !.cmd = data]]
    /\ UNCHANGED <<viewVars, flagVars, hostVars, qualVars, lsock, srv, ui, logVars>>

\* sock.recv returns b'' (so _recv_all returns None and the loop breaks) or
\* raises (the handler of socket.error reports it); both end in finally.
InRecvEnd(t) ==
    /\ inp[t].pc \in {"len", "data"}
    /\ RecvOutcome(inp[t].c) \in {"eof", "error"}
    /\ inp' = [inp EXCEPT ![t] = InputAt(t, "finally")]
    /\ UNCHANGED <<viewVars, flagVars, hostVars, qualVars, netVars, srv, ui, logVars>>

\* Deserialize and execute command (the inner try).
InExec(t) ==
    /\ inp[t].pc = "exec"
    /\ LET r == ParseCommand(inp[t].cmd)
       IN  inLog' = Append(inLog, [cmd |-> inp[t].cmd, call |-> r.call, note |-> r.note])
    /\ inp' = [inp EXCEPT ![t] = InputAt(t, "top")]
    /\ UNCHANGED <<viewVars, flagVars, hostVars, qualVars, netVars, srv, ui, sentLog, status>>

\* A finally block that leaves the streaming flag as it is.
InFinallyKeepsFlag(t) ==
    /\ inp[t].pc = "finally"
    /\ inp' = [inp EXCEPT ![t] = InputAt(t, "done")]
    /\ UNCHANGED <<viewVars, flagVars, hostVars, qualVars, netVars, srv, ui, logVars>>

\* finally: "Client input handler stopped."; self.is_streaming = False
InFinally(t) ==
    /\ inp[t].pc = "finally"
    /\ is_streaming' = FALSE
    /\ inp' = [inp EXCEPT ![t] = InputAt(t, "done")]
    /\ UNCHANGED <<viewVars, is_server_running, is_client_connected, hostVars, qualVars,
                   netVars, srv, ui, logVars>>

(***************************************************************************)
(* Adaptive quality: the step run_server_loop makes before it encodes a    *)
(* frame, from the quality and the size of the frame encoded before.       *)
(***************************************************************************)
target_min_size == 50000
target_max_size == 150000

\* The logic with the bounds of the target range taken into the range.
AdaptQualityInclusive(quality, last_size) ==
    IF last_size >= target_max_size THEN Max(20, quality - 5)
    ELSE IF last_size <= target_min_size /\ quality < 90 THEN Min(90, quality + 5)
    ELSE quality

\* The logic without the floor and the ceiling.
AdaptQualityUnclamped(quality, last_size) ==
    IF last_size > target_max_size THEN quality - 5
    ELSE IF last_size < target_min_size THEN quality + 5
    ELSE quality

AdaptQuality(quality, last_size) ==
    IF last_size > target_max_size THEN Max(20, quality - 5)
    ELSE IF last_size < target_min_size /\ quality < 90 THEN Min(90, quality + 5)
    ELSE quality

(***************************************************************************)
(* status_signal.message.emit(text, severity): the text (of an f-string,   *)
(* the part before its first field) and the severity.                      *)
(***************************************************************************)
Note(text, severity) == [text |-> text, severity |-> severity]

Emit(notes) == status' = status \cup notes

ConnectedNote    == Note("Connected to server. Streaming...", "success")
RefusedNote      == Note("Connection refused to", "error")
TimedOutNote     == Note("Connection timed out to", "error")
InvalidIpNote    == Note("Invalid server IP address:", "error")
ConnectFailedNote == Note("Client connection failed:", "error")
LostAtSizeNote   == Note("Server disconnected while receiving frame size.", "error")
LostAtDataNote   == Note("Server disconnected while receiving frame data.", "error")
ReceiveErrorNote == Note("Client receive error:", "error")
GeneralReceiveErrorNote == Note("General client receive loop error:", "error")
LoopStoppedNote  == Note("Client receive loop stopped.", "info")
NotDecodedNote   == Note("Could not decode image frame. Corrupted data?", "error")
FrameErrorNote   == Note("Error processing/displaying frame:", "error")
SendErrorNote    == Note("Error sending input event:", "error")
SessionEndedNote == Note("Client session ended.", "info")
FailedStartNote  == Note("Failed to start server:", "error")

(***************************************************************************)
(* start_server (UI thread)                                                *)
(***************************************************************************)
\* if self.is_server_running: (line 418)
AlreadyRunning == is_server_running

FreshRun == CHOOSE s \in Runs : srv[s].pc = "unborn" /\ \A r \in 1..(s - 1) : srv[r].pc # "unborn"

StartServer ==
    /\ ui = "idle"
    /\ ~AlreadyRunning
    /\ \E s \in Runs : srv[s].pc = "unborn"
    /\ is_server_running' = TRUE
    /\ screen_stream_thread' = FreshRun
    /\ srv' = [srv EXCEPT ![FreshRun].pc = "setup"]
    /\ status' = {}
    /\ UNCHANGED <<viewVars, is_streaming, is_client_connected, server_socket, server_connection,
                   input_handler_thread, qualVars, netVars, inp, ui, sentLog, inLog>>

\* "Server is already running."
StartServerRefused ==
    /\ ui = "idle"
    /\ AlreadyRunning
    /\ UNCHANGED vars

(***************************************************************************)
(* run_server_loop, thread s                                               *)
(***************************************************************************)
\* Port 9999 is taken while a listening socket of this process is open; it
\* may also be taken by another program.
PortTaken == \E l \in Runs : lsock[l].fd = "open"

\* A server thread that tries the bind again when it has failed.
SrvSetupRetries(s, port_free) ==
    /\ srv[s].pc = "setup"
    /\ server_socket' = s
    /\ IF port_free /\ ~PortTaken
       THEN /\ lsock' = [lsock EXCEPT ![s] = [fd |-> "open", backlog |-> 0]]
            /\ srv' = [srv EXCEPT ![s].pc = "loop"]
       ELSE /\ lsock' = [lsock EXCEPT ![s] = [fd |-> "unbound", backlog |-> 0]]
            /\ UNCHANGED srv
    /\ UNCHANGED <<viewVars, flagVars, server_connection, screen_stream_thread, input_handler_thread,
                   qualVars, conn, inp, ui, logVars>>

\* socket(), setsockopt, settimeout, bind, listen.  The socket is stored in
\* self.server_socket before bind; a failing bind or listen is handled at
\* line 509: "Failed to start server: ...".
SrvSetup(s, port_free) ==
    /\ srv[s].pc = "setup"
    /\ server_socket' = s
    /\ IF port_free /\ ~PortTaken
       THEN /\ lsock' = [lsock EXCEPT ![s] = [fd |-> "open", backlog |-> 0]]
            /\ srv' = [srv EXCEPT ![s].pc = "loop"]
            /\ UNCHANGED status
       ELSE /\ lsock' = [lsock EXCEPT ![s] = [fd |-> "unbound", backlog |-> 0]]
            /\ srv' = [srv EXCEPT ![s].pc = "finally"]
            /\ Emit({FailedStartNote})
    /\ UNCHANGED <<viewVars, flagVars, server_connection, screen_stream_thread, input_handler_thread,
                   qualVars, conn, inp, ui, sentLog, inLog>>

\* while self.is_server_running: ... self.server_socket.accept() is entered
\* (on None: AttributeError, "Unhandled server loop error", break).
SrvLoop(s) ==
    /\ srv[s].pc = "loop"
    /\ srv' = [srv EXCEPT ![s] =
                 IF ~is_server_running \/ server_socket = NoObj
                 THEN [pc |-> "finally", sock |-> NoObj]
                 ELSE [pc |-> "accept", sock |-> server_socket]]
    /\ UNCHANGED <<viewVars, flagVars, hostVars, qualVars, netVars, inp, ui, logVars>>

FreshConn == CHOOSE c \in Conns : conn[c].fd = "unused" /\ \A d \in 1..(c - 1) : conn[d].fd # "unused"

\* accept() returns a connection: self.server_connection, self.server_address.
SrvAccept(s) ==
    /\ srv[s].pc = "accept"
    /\ lsock[srv[s].sock].fd = "open"
    /\ lsock[srv[s].sock].backlog > 0
    /\ lsock' = [lsock EXCEPT ![srv[s].sock].backlog = @ - 1]
    /\ conn' = [conn EXCEPT ![FreshConn].fd = "open"]
    /\ server_connection' = FreshConn
    /\ srv' = [srv EXCEPT ![s] = [pc |-> "accepted", sock |-> NoObj]]
    /\ UNCHANGED <<viewVars, flagVars, server_socket, screen_stream_thread, input_handler_thread,
                   qualVars, inp, ui, logVars>>

\* accept() times out after 1 s: continue.
SrvAcceptTimeout(s) ==
    /\ srv[s].pc = "accept"
    /\ lsock[srv[s].sock].fd = "open"
    /\ lsock[srv[s].sock].backlog = 0
    /\ srv' = [srv EXCEPT ![s] = [pc |-> "loop", sock |-> NoObj]]
    /\ UNCHANGED <<viewVars, flagVars, hostVars, qualVars, netVars, inp, ui, logVars>>

\* accept() raises OSError on a socket that was shut down and closed: break.
SrvAcceptError(s) ==
    /\ srv[s].pc = "accept"
    /\ lsock[srv[s].sock].fd # "open"
    /\ srv' = [srv EXCEPT ![s] = [pc |-> "finally", sock |-> NoObj]]
    /\ UNCHANGED <<viewVars, flagVars, hostVars, qualVars, netVars, inp, ui, logVars>>

\* A server thread that starts the input handler thread and leaves the
\* streaming flag as it is.
SrvStartInputFlagUnset(s) ==
    /\ srv[s].pc = "accepted"
    /\ LET t == CHOOSE c \in Conns : conn[c].fd # "unused" /\ inp[c].pc = "unborn"
                                     /\ \A d \in 1..(c - 1) : inp[d].pc # "unborn"
       IN  /\ inp' = [inp EXCEPT ![t] = [UnbornInput EXCEPT !.pc = "top", !.c = server_connection]]
           /\ input_handler_thread' = t
    /\ srv' = [srv EXCEPT ![s].pc = "stream"]
    /\ UNCHANGED <<viewVars, flagVars, server_socket, server_connection,
                   screen_stream_thread, qualVars, netVars, ui, logVars>>

\* self.is_streaming = True; the input handler thread is created with
\* args=(self.server_connection,) and started.  The thread of the k-th
\* accepted connection is thread k.
SrvStartInput(s) ==
    /\ srv[s].pc = "accepted"
    /\ is_streaming' = TRUE
    /\ LET t == CHOOSE c \in Conns : conn[c].fd # "unused" /\ inp[c].pc = "unborn"
                                     /\ \A d \in 1..(c - 1) : inp[d].pc # "unborn"
       IN  /\ inp' = [inp EXCEPT ![t] = [UnbornInput EXCEPT !.pc = "top", !.c = server_connection]]
           /\ input_handler_thread' = t
    /\ srv' = [srv EXCEPT ![s].pc = "stream"]
    /\ UNCHANGED <<viewVars, is_server_running, is_client_connected, server_socket, server_connection,
                   screen_stream_thread, qualVars, netVars, ui, logVars>>

\* while self.is_streaming and self.is_server_running:
SrvStream(s) ==
    /\ srv[s].pc = "stream"
    /\ srv' = [srv EXCEPT ![s].pc = IF is_streaming /\ is_server_running
                                    THEN "capture" ELSE "sfinally"]
    /\ UNCHANGED <<viewVars, flagVars, hostVars, qualVars, netVars, inp, ui, logVars>>

\* The frame-rate sleep, the screenshot, and the adaptive quality logic.
SrvAdapt(s) ==
    /\ srv[s].pc = "capture"
    /\ jpeg_quality' = AdaptQuality(jpeg_quality, last_frame_size)
    /\ srv' = [srv EXCEPT ![s].pc = "encode"]
    /\ UNCHANGED <<viewVars, flagVars, hostVars, last_frame_size, netVars, inp, ui, logVars>>

\* imencode and zlib.compress; size is the length of the compressed frame.
SrvEncode(s, size) ==
    /\ srv[s].pc = "encode"
    /\ last_frame_size' = size
    /\ srv' = [srv EXCEPT ![s].pc = "send"]
    /\ UNCHANGED <<viewVars, flagVars, hostVars, jpeg_quality, netVars, inp, ui, logVars>>

\* The screenshot or the encoder raises: "Server streaming general error".
SrvCaptureFails(s) ==
    /\ srv[s].pc = "capture"
    /\ srv' = [srv EXCEPT ![s].pc = "sfinally"]
    /\ UNCHANGED <<viewVars, flagVars, hostVars, qualVars, netVars, inp, ui, logVars>>

\* What self.server_connection.sendall(...) does: "ok", or "error" (the
\* field is None, the socket was closed or shut down, the peer reset); after
\* the peer's close a send may still succeed.
SendOutcomes(c) ==
    IF c = NoObj THEN {"error"}
    ELSE IF conn[c].fd # "open" \/ conn[c].shut \/ conn[c].peer = "rst" THEN {"error"}
    ELSE IF conn[c].peer = "fin" THEN {"ok", "error"}
    ELSE {"ok"}

SrvSend(s, outcome) ==
    /\ srv[s].pc = "send"
    /\ outcome \in SendOutcomes(server_connection)
    /\ srv' = [srv EXCEPT ![s].pc = IF outcome = "ok" THEN "stream" ELSE "sfinally"]
    /\ UNCHANGED <<viewVars, flagVars, hostVars, qualVars, netVars, inp, ui, logVars>>

\* finally (line 485): self.is_streaming = False; if self.server_connection:
SrvStreamFinally(s) ==
    /\ srv[s].pc = "sfinally"
    /\ is_streaming' = FALSE
    /\ srv' = [srv EXCEPT ![s].pc = IF server_connection # NoObj THEN "sclose" ELSE "loop"]
    /\ UNCHANGED <<viewVars, is_server_running, is_client_connected, hostVars, qualVars, netVars,
                   inp, ui, logVars>>

\* shutdown and close of a socket object (an OSError of shutdown is passed
\* over, and close with it): what it had received is gone, and what the
\* remote end does from now on does not reach it.
Closed(sock) == [fd |-> "closed", shut |-> TRUE, peer |-> "gone", rbuf |-> <<>>]

\* self.server_connection.shutdown(); .close(); self.server_connection = None.
\* If the field became None meanwhile, the AttributeError leaves the finally
\* block and is handled at line 506: break.
SrvStreamClose(s) ==
    /\ srv[s].pc = "sclose"
    /\ IF server_connection # NoObj
       THEN /\ conn' = [conn EXCEPT ![server_connection] = Closed(@)]
            /\ server_connection' = NoObj
            /\ srv' = [srv EXCEPT ![s].pc = "loop"]
       ELSE /\ srv' = [srv EXCEPT ![s].pc = "finally"]
            /\ UNCHANGED <<conn, server_connection>>
    /\ UNCHANGED <<viewVars, flagVars, server_socket, screen_stream_thread, input_handler_thread,
                   qualVars, lsock, inp, ui, logVars>>

\* finally (line 511): self.is_server_running = False; if self.server_socket:
SrvFinally(s) ==
    /\ srv[s].pc = "finally"
    /\ is_server_running' = FALSE
    /\ srv' = [srv EXCEPT ![s].pc = IF server_socket # NoObj THEN "fclose" ELSE "done"]
    /\ UNCHANGED <<viewVars, is_streaming, is_client_connected, hostVars, qualVars, netVars,
                   inp, ui, logVars>>

\* self.server_socket.shutdown(); .close(); self.server_socket = None;
\* "Server stopped.".  If the field became None meanwhile, the thread ends
\* with the AttributeError.
SrvFinallyClose(s) ==
    /\ srv[s].pc = "fclose"
    /\ IF server_socket # NoObj
       THEN /\ lsock' = [lsock EXCEPT ![server_socket] = [fd |-> "closed", backlog |-> 0]]
            /\ server_socket' = NoObj
       ELSE UNCHANGED <<lsock, server_socket>>
    /\ srv' = [srv EXCEPT ![s].pc = "done"]
    /\ UNCHANGED <<viewVars, flagVars, server_connection, screen_stream_thread, input_handler_thread,
                   qualVars, conn, inp, ui, logVars>>

(***************************************************************************)
(* stop_server (UI thread)                                                 *)
(***************************************************************************)
\* if not self.is_server_running: (line 524)
NotRunning == ~is_server_running

\* "Server is not running.": return.
StopServerRefused ==
    /\ ui = "idle"
    /\ NotRunning
    /\ UNCHANGED vars

\* self.is_server_running = False; self.is_streaming = False;
\* if self.server_connection:
StopServer ==
    /\ ui = "idle"
    /\ ~NotRunning
    /\ is_server_running' = FALSE
    /\ is_streaming' = FALSE
    /\ ui' = IF server_connection # NoObj THEN "ss_close_conn" ELSE "ss_sock"
    /\ UNCHANGED <<viewVars, is_client_connected, hostVars, qualVars, netVars, srv, inp, logVars>>

\* shutdown, close, self.server_connection = None.  If the field became None
\* meanwhile, the AttributeError ends stop_server.
StopServerCloseConn ==
    /\ ui = "ss_close_conn"
    /\ IF server_connection # NoObj
       THEN /\ conn' = [conn EXCEPT ![server_connection] = Closed(@)]
            /\ server_connection' = NoObj
            /\ ui' = "ss_sock"
       ELSE /\ ui' = "idle"
            /\ UNCHANGED <<conn, server_connection>>
    /\ UNCHANGED <<viewVars, flagVars, server_socket, screen_stream_thread, input_handler_thread,
                   qualVars, lsock, srv, inp, logVars>>

\* if self.server_socket:
StopServerSock ==
    /\ ui = "ss_sock"
    /\ ui' = IF server_socket # NoObj THEN "ss_close_sock" ELSE "ss_join_stream"
    /\ UNCHANGED <<viewVars, flagVars, hostVars, qualVars, netVars, srv, inp, logVars>>

StopServerCloseSock ==
    /\ ui = "ss_close_sock"
    /\ IF server_socket # NoObj
       THEN /\ lsock' = [lsock EXCEPT ![server_socket] = [fd |-> "closed", backlog |-> 0]]
            /\ server_socket' = NoObj
            /\ ui' = "ss_join_stream"
       ELSE /\ ui' = "idle"
            /\ UNCHANGED <<lsock, server_socket>>
    /\ UNCHANGED <<viewVars, flagVars, server_connection, screen_stream_thread, input_handler_thread,
                   qualVars, conn, srv, inp, logVars>>

\* if thread and thread.is_alive(): thread.join(timeout=2.0).  The join
\* returns when the thread has ended (ended = TRUE) or when 2 s have passed.
StopServerJoinStream(ended) ==
    /\ ui = "ss_join_stream"
    /\ ended = ~ServerAlive(screen_stream_thread)
    /\ ui' = "ss_join_input"
    /\ UNCHANGED <<viewVars, flagVars, hostVars, qualVars, netVars, srv, inp, logVars>>

\* The same for self.input_handler_thread; then _update_button_states().
StopServerJoinInput(ended) ==
    /\ ui = "ss_join_input"
    /\ ended = ~InputAlive(input_handler_thread)
    /\ ui' = "idle"
    /\ UNCHANGED <<viewVars, flagVars, hostVars, qualVars, netVars, srv, inp, logVars>>

(***************************************************************************)
(* The viewer role.                                                        *)
(*                                                                         *)
(* vsock[v]: the socket the v-th start_client created (as conn[c]).        *)
(* rcv[r]: the thread running _client_receive_loop of the r-th session     *)
(*   pc     "unborn", "top", "size", "data", "finally", "sc_guard",        *)
(*          "sc_flags", "sc_close", "sc_join", "sc_finish", "done", and    *)
(*          "died" (ended by an exception nothing handles)                 *)
(*   sock, n, data  the arguments and the local of the running _recv_all   *)
(* The UI thread runs stop_client_session at ui = "sc_...", and the decode *)
(* of _update_image_label_from_buffer at ui = "decode" with frame_data.    *)
(* client_ui_update_timer.stop() is taken to stop the timer whichever      *)
(* thread calls it; a tick after it would return at line 696.              *)
(***************************************************************************)
MaxSessions == 2    \* times start_client creates a socket
MaxFrames   == 2    \* frames the remote host sends

Sessions == 1..MaxSessions

MainThread == 0     \* the UI thread as a caller of stop_client_session

NoBytes == <<-1>>   \* None where bytes are expected

UnbornReceiver == [pc |-> "unborn", sock |-> NoObj, n |-> 0, data |-> <<>>]

ReceiverAlive(r) == r # NoObj /\ rcv[r].pc \notin {"unborn", "done", "died"}

WaitingLabel == [text |-> "waiting", pixmap |-> NoPixmap, frame |-> 0]
LostLabel    == [text |-> "lost", pixmap |-> NoPixmap, frame |-> 0]

\* zlib.decompress(z): the bytes after the stream header 0x78, or zlib.error
\* for what is no zlib stream (no header, or cut short).
ZlibHeader == 120
DecompressOk(z) == Len(z) >= 2 /\ z[1] = ZlibHeader
Decompress(z) == Tail(z)

\* cv2.imdecode: an image for bytes that start a JPEG (0xFF), else None.
JpegMarker == 255
ImDecodeOk(buf) == Len(buf) >= 1 /\ buf[1] = JpegMarker

\* The frame every image of the remote host has, and the label it is shown in.
RawFrameSize == <<16, 12>>
LabelSize    == <<10, 6>>

(***************************************************************************)
(* start_client (UI thread).  outcome is what connect() does.              *)
(***************************************************************************)
ConnectOutcomes == {"ok", "refused", "timeout", "gaierror", "oserror"}

\* One handler for every failed connect.
ConnectNoteGeneric(outcome) ==
    IF outcome = "ok" THEN ConnectedNote ELSE ConnectFailedNote

\* The except clause of start_client that handles a failed connect
\* (socket.timeout is TimeoutError, as since Python 3.10).
ConnectNote(outcome) ==
    CASE outcome = "ok"       -> ConnectedNote
      [] outcome = "refused"  -> RefusedNote
      [] outcome = "timeout"  -> TimedOutNote
      [] outcome = "gaierror" -> InvalidIpNote
      [] outcome = "oserror"  -> ConnectFailedNote

FreshSession == CHOOSE v \in Sessions : vsock[v].fd = "unused"
                                        /\ \A w \in 1..(v - 1) : vsock[w].fd # "unused"

\* "Client is already connected.", "Cannot run client while server is
\* active.", "Please enter a valid server IP.": return.
StartClientRefused(ip_given) ==
    /\ ui = "idle"
    /\ is_client_connected \/ is_server_running \/ ~ip_given
    /\ UNCHANGED vars

\* On a failed connect the handler calls stop_client_session(), which
\* returns at its first line: the session is not connected.
StartClient(outcome) ==
    /\ ui = "idle"
    /\ ~is_client_connected /\ ~is_server_running
    /\ \E v \in Sessions : vsock[v].fd = "unused"
    /\ outcome \in ConnectOutcomes
    /\ client_socket' = FreshSession
    /\ IF outcome = "ok"
       THEN /\ vsock' = [vsock EXCEPT ![FreshSession] = OpenConn]
            /\ is_client_connected' = TRUE
            /\ is_streaming' = TRUE
            /\ image_label' = [image_label EXCEPT !.text = ""]
            /\ client_receive_thread' = FreshSession
            /\ rcv' = [rcv EXCEPT ![FreshSession].pc = "top"]
            /\ timer_active' = TRUE
       ELSE /\ vsock' = [vsock EXCEPT ![FreshSession] = [OpenConn EXCEPT !.peer = "none"]]
            /\ UNCHANGED <<is_client_connected, is_streaming, image_label,
                           client_receive_thread, rcv, timer_active>>
    /\ status' = {ConnectNote(outcome)}
    /\ UNCHANGED <<is_server_running, hostVars, qualVars, netVars, srv, inp, ui,
                   latest_frame_data, frame_data, frameLog, sentLog, inLog>>

(***************************************************************************)
(* _client_receive_loop, thread r                                          *)
(***************************************************************************)
ReceiverAt(r, pc) == [rcv[r] EXCEPT !.pc = pc, !.sock = NoObj, !.n = 0, !.data = <<>>]

\* while self.is_client_connected and self.is_streaming:
\*     size_bytes = self._recv_all(self.client_socket, 8)
RcvTop(r) ==
    /\ rcv[r].pc = "top"
    /\ rcv' = [rcv EXCEPT ![r] =
                 IF is_client_connected /\ is_streaming
                 THEN [ReceiverAt(r, "size") EXCEPT !.sock = client_socket, !.n = 8]
                 ELSE ReceiverAt(r, "finally")]
    /\ UNCHANGED <<flagVars, hostVars, qualVars, netVars, srv, inp, ui, client_socket,
                   client_receive_thread, latest_frame_data, frame_data, timer_active,
                   image_label, vsock, frameLog, logVars>>

\* A buffer that keeps the frame it holds.
StoreFrameKeepOld(buffer, data) == IF buffer = NoBytes THEN data ELSE buffer

\* A buffer that adds what arrives to what it holds.
StoreFrameAppend(buffer, data) == IF buffer = NoBytes THEN data ELSE buffer \o data

\* with self.latest_frame_lock: self.latest_frame_data = data
StoreFrame(buffer, data) == data

\* One sock.recv(n - len(data)) of _recv_all that returns k bytes.  When the
\* size is complete: size = 0 makes _recv_all return b'', taken for a closed
\* connection; else _recv_all(self.client_socket, size) starts.  When the
\* data is complete it is stored.
RcvBytes(r, k) ==
    /\ rcv[r].pc \in {"size", "data"}
    /\ RecvOutcomeOn(vsock, rcv[r].sock) = "bytes"
    /\ k \in 1..Min(rcv[r].n - Len(rcv[r].data), Len(vsock[rcv[r].sock].rbuf))
    /\ LET v == rcv[r].sock
           data == rcv[r].data \o SubSeq(vsock[v].rbuf, 1, k)
           complete == Len(data) = rcv[r].n
       IN  /\ vsock' = [vsock EXCEPT ![v].rbuf = SubSeq(@, k + 1, Len(@))]
           /\ rcv' = [rcv EXCEPT ![r] =
                  IF ~complete THEN [@ EXCEPT !.data = data]
                  ELSE IF rcv[r].pc = "data" THEN ReceiverAt(r, "top")
                  ELSE IF FromBytes(data) = 0 THEN ReceiverAt(r, "finally")
                  ELSE [ReceiverAt(r, "data") EXCEPT !.sock = client_socket,
                                                     !.n = FromBytes(data)]]
           /\ IF complete /\ rcv[r].pc = "data"
              THEN /\ latest_frame_data' = StoreFrame(latest_frame_data, data)
                   /\ frameLog' = [frameLog EXCEPT !.stored = Append(@, data)]
              ELSE UNCHANGED <<latest_frame_data, frameLog>>
           /\ IF complete /\ rcv[r].pc = "size" /\ FromBytes(data) = 0
              THEN Emit({LostAtDataNote})
              ELSE UNCHANGED status
    /\ UNCHANGED <<flagVars, hostVars, qualVars, netVars, srv, inp, ui, client_socket,
                   client_receive_thread, frame_data, timer_active, image_label,
                   sentLog, inLog>>

\* recv returns b'' ("Server disconnected while receiving ...", break) or
\* raises (socket closed, or self.client_socket was None): finally.
RcvEnd(r) ==
    /\ rcv[r].pc \in {"size", "data"}
    /\ RecvOutcomeOn(vsock, rcv[r].sock) \in {"eof", "error"}
    /\ rcv' = [rcv EXCEPT ![r] = ReceiverAt(r, "finally")]
    /\ Emit({IF rcv[r].sock = NoObj THEN GeneralReceiveErrorNote
             ELSE IF RecvOutcomeOn(vsock, rcv[r].sock) = "error" THEN ReceiveErrorNote
             ELSE IF rcv[r].pc = "size" THEN LostAtSizeNote
             ELSE LostAtDataNote})
    /\ UNCHANGED <<flagVars, hostVars, qualVars, netVars, srv, inp, ui, client_socket,
                   client_receive_thread, latest_frame_data, frame_data, timer_active,
                   image_label, vsock, frameLog, sentLog, inLog>>

\* finally: self.is_streaming = False; "Client receive loop stopped.";
\* self.stop_client_session()
RcvFinally(r) ==
    /\ rcv[r].pc = "finally"
    /\ is_streaming' = FALSE
    /\ Emit({LoopStoppedNote})
    /\ rcv' = [rcv EXCEPT ![r] = ReceiverAt(r, "sc_guard")]
    /\ UNCHANGED <<is_server_running, is_client_connected, hostVars, qualVars, netVars,
                   srv, inp, ui, client_socket, client_receive_thread, latest_frame_data,
                   frame_data, timer_active, image_label, vsock, frameLog, sentLog, inLog>>

(***************************************************************************)
(* _update_image_label_from_buffer (UI thread, on a tick of the timer)     *)
(***************************************************************************)
\* A consume that leaves the buffer as it found it.
UpdateTakeKeeps ==
    /\ ui = "idle"
    /\ timer_active
    /\ IF is_client_connected /\ latest_frame_data # NoBytes /\ latest_frame_data # <<>>
       THEN /\ frame_data' = latest_frame_data
            /\ frameLog' = [frameLog EXCEPT !.taken =
                              Append(@, [data |-> latest_frame_data,
                                         stored |-> Len(frameLog.stored)])]
            /\ ui' = "decode"
            /\ UNCHANGED latest_frame_data
       ELSE UNCHANGED <<frame_data, latest_frame_data, frameLog, ui>>
    /\ UNCHANGED <<flagVars, hostVars, qualVars, netVars, srv, inp, client_socket,
                   client_receive_thread, timer_active, image_label, vsock, rcv, logVars>>

\* if not self.is_client_connected: return; and under the lock:
\* if self.latest_frame_data: frame_data = it; self.latest_frame_data = None
UpdateTake ==
    /\ ui = "idle"
    /\ timer_active
    /\ IF is_client_connected /\ latest_frame_data # NoBytes /\ latest_frame_data # <<>>
       THEN /\ frame_data' = latest_frame_data
            /\ latest_frame_data' = NoBytes
            /\ frameLog' = [frameLog EXCEPT !.taken =
                              Append(@, [data |-> latest_frame_data,
                                         stored |-> Len(frameLog.stored)])]
            /\ ui' = "decode"
       ELSE UNCHANGED <<frame_data, latest_frame_data, frameLog, ui>>
    /\ UNCHANGED <<flagVars, hostVars, qualVars, netVars, srv, inp, client_socket,
                   client_receive_thread, timer_active, image_label, vsock, rcv, logVars>>

\* if frame_data: decompress, imdecode, scale to the label, setPixmap.
\* imdecode returning None drops the frame; an exception (zlib.error) is
\* reported and followed by self.stop_client_session().
UpdateDecode ==
    /\ ui = "decode"
    /\ IF ~DecompressOk(frame_data)
       THEN /\ ui' = "sc_guard"
            /\ Emit({FrameErrorNote})
            /\ UNCHANGED <<frame_data, image_label>>
       ELSE /\ ui' = "idle"
            /\ frame_data' = NoBytes
            /\ IF ImDecodeOk(Decompress(frame_data))
               THEN /\ image_label' = [image_label EXCEPT
                                         !.pixmap = QSizeScaled(RawFrameSize, LabelSize),
                                         !.frame = frame_data[Len(frame_data)]]
                    /\ UNCHANGED status
               ELSE /\ Emit({NotDecodedNote})
                    /\ UNCHANGED image_label
    /\ UNCHANGED <<flagVars, hostVars, qualVars, netVars, srv, inp, client_socket,
                   client_receive_thread, latest_frame_data, timer_active, vsock, rcv,
                   frameLog, sentLog, inLog>>

(***************************************************************************)
(* stop_client_session, called by thread k: the UI thread (MainThread) or  *)
(* receive thread k.                                                       *)
(***************************************************************************)
Pc(k) == IF k = MainThread THEN ui ELSE rcv[k].pc

\* Thread k goes on at pc.
Goto(k, pc) ==
    IF k = MainThread
    THEN ui' = pc /\ UNCHANGED rcv
    ELSE rcv' = [rcv EXCEPT ![k].pc = pc] /\ UNCHANGED ui

\* The call returns: the UI thread is idle again (and frame_data, a local of
\* the update that called, is gone); a receive thread ends.
Return(k) ==
    IF k = MainThread
    THEN ui' = "idle" /\ frame_data' = NoBytes /\ UNCHANGED rcv
    ELSE rcv' = [rcv EXCEPT ![k].pc = "done"] /\ UNCHANGED <<ui, frame_data>>

\* The call raises: the UI thread's slot ends; a receive thread dies.
Raise(k) ==
    IF k = MainThread
    THEN ui' = "idle" /\ frame_data' = NoBytes /\ UNCHANGED rcv
    ELSE rcv' = [rcv EXCEPT ![k].pc = "died"] /\ UNCHANGED <<ui, frame_data>>

\* A stop_client_session without its first test.
NeverNotConnected == FALSE

\* if not self.is_client_connected: (line 888)
NotConnected == ~is_client_connected

\* The Disconnect button, closeEvent: stop_client_session() returns at once.
StopClientSessionRefused ==
    /\ ui = "idle"
    /\ NotConnected
    /\ UNCHANGED vars

\* ... or goes on.
StopClientSession ==
    /\ ui = "idle"
    /\ ~NotConnected
    /\ ui' = "sc_flags"
    /\ UNCHANGED <<flagVars, hostVars, qualVars, netVars, srv, inp, viewVars, logVars>>

\* The same test in a call made by the update or by a receive thread.
ScsGuard(k) ==
    /\ Pc(k) = "sc_guard"
    /\ IF NotConnected
       THEN Return(k)
       ELSE Goto(k, "sc_flags") /\ UNCHANGED frame_data
    /\ UNCHANGED <<flagVars, hostVars, qualVars, netVars, srv, inp, client_socket,
                   client_receive_thread, latest_frame_data, timer_active, image_label,
                   vsock, frameLog, logVars>>

\* timer.stop(); self.is_client_connected = False; self.is_streaming = False;
\* if self.client_socket:
ScsFlags(k) ==
    /\ Pc(k) = "sc_flags"
    /\ timer_active' = FALSE
    /\ is_client_connected' = FALSE
    /\ is_streaming' = FALSE
    /\ Goto(k, IF client_socket # NoObj THEN "sc_close" ELSE "sc_join")
    /\ UNCHANGED <<is_server_running, hostVars, qualVars, netVars, srv, inp, client_socket,
                   client_receive_thread, latest_frame_data, frame_data, image_label,
                   vsock, frameLog, logVars>>

\* A teardown that drops the socket without shutdown and close.
ScsCloseDropsSocket(k) ==
    /\ Pc(k) = "sc_close"
    /\ client_socket' = NoObj
    /\ Goto(k, "sc_join")
    /\ UNCHANGED <<flagVars, hostVars, qualVars, netVars, srv, inp, client_receive_thread,
                   latest_frame_data, frame_data, timer_active, image_label, vsock,
                   frameLog, logVars>>

\* shutdown, close, self.client_socket = None.  If the field became None
\* meanwhile, the AttributeError ends the call.
ScsClose(k) ==
    /\ Pc(k) = "sc_close"
    /\ IF client_socket # NoObj
       THEN /\ vsock' = [vsock EXCEPT ![client_socket] = Closed(@)]
            /\ client_socket' = NoObj
            /\ Goto(k, "sc_join")
            /\ UNCHANGED frame_data
       ELSE /\ Raise(k)
            /\ UNCHANGED <<vsock, client_socket>>
    /\ UNCHANGED <<flagVars, hostVars, qualVars, netVars, srv, inp, client_receive_thread,
                   latest_frame_data, timer_active, image_label, frameLog, logVars>>

\* if thread and thread.is_alive(): thread.join(timeout=2.0).  Joining the
\* calling thread raises RuntimeError; else the join returns when the thread
\* has ended (ended = TRUE) or when 2 s have passed.
ScsJoin(k, ended) ==
    /\ Pc(k) = "sc_join"
    /\ ended = ~ReceiverAlive(client_receive_thread)
    /\ IF ~ended /\ client_receive_thread = k
       THEN Raise(k)
       ELSE Goto(k, "sc_finish") /\ UNCHANGED frame_data
    /\ UNCHANGED <<flagVars, hostVars, qualVars, netVars, srv, inp, client_socket,
                   client_receive_thread, latest_frame_data, timer_active, image_label,
                   vsock, frameLog, logVars>>

\* image_label.clear(); setText("Connection lost ..."); "Client session
\* ended."; _update_button_states()
ScsFinish(k) ==
    /\ Pc(k) = "sc_finish"
    /\ image_label' = LostLabel
    /\ Emit({SessionEndedNote})
    /\ Return(k)
    /\ UNCHANGED <<flagVars, hostVars, qualVars, netVars, srv, inp, client_socket,
                   client_receive_thread, latest_frame_data, timer_active, vsock,
                   frameLog, sentLog, inLog>>

(***************************************************************************)
(* send_input_events in this process (UI thread): eventFilter and the key  *)
(* handlers call it with a local event of the image label.                 *)
(***************************************************************************)
\* self.image_label.pixmap(): PySide6 returns a QPixmap by value, the null
\* pixmap (0 x 0) when the label shows none; it never returns None.
PixmapOf(label) == IF label.pixmap = NoPixmap THEN <<0, 0>> ELSE label.pixmap

\* self.image_label.contentsRect().size()
ContentsRect == LabelSize

\* if not self.client_socket or not self.is_client_connected: (line 730)
NoSession == client_socket = NoObj \/ ~is_client_connected

\* What self.client_socket.sendall(...) does: "ok", or "error" (the socket
\* was closed or shut down); after the remote end's close a send may still
\* succeed.
ClientSendOutcomes ==
    IF vsock[client_socket].fd # "open" \/ vsock[client_socket].shut THEN {"error"}
    ELSE IF vsock[client_socket].peer = "fin" THEN {"ok", "error"}
    ELSE {"ok"}

\* return at line 731.
SendInputEventsRefused ==
    /\ ui = "idle"
    /\ NoSession
    /\ UNCHANGED vars

\* The command is built and written; a socket error is reported and
\* followed by self.stop_client_session().  sentLog records what was written.
SendInputEvents(ev, outcome) ==
    /\ ui = "idle"
    /\ ~NoSession
    /\ Len(sentLog) < MaxMsgs
    /\ LET command == BuildCommand(ev.type, ev.args, PixmapOf(image_label), ContentsRect)
       IN  /\ command # NoCommand
           /\ outcome \in ClientSendOutcomes
           /\ IF outcome = "ok"
              THEN /\ sentLog' = Append(sentLog, [origin |-> "local", ev |-> ev,
                                                  text |-> command])
                   /\ UNCHANGED <<ui, status>>
              ELSE /\ ui' = "sc_guard"
                   /\ Emit({SendErrorNote})
                   /\ UNCHANGED sentLog
    /\ UNCHANGED <<flagVars, hostVars, qualVars, netVars, srv, inp, viewVars, inLog>>

(***************************************************************************)
(* The remote host of a viewer session.                                    *)
(***************************************************************************)
\* The compressed frame numbered id (its last byte), of a kind: a JPEG in
\* a zlib stream, what is no JPEG in a zlib stream, what is no zlib stream,
\* and no bytes at all.
FrameKinds == {"jpeg", "nojpeg", "nozlib", "empty"}

Frame(kind, id) ==
    CASE kind = "jpeg"   -> <<ZlibHeader, JpegMarker, id>>
      [] kind = "nojpeg" -> <<ZlibHeader, 0, id>>
      [] kind = "nozlib" -> <<0, 0, id>>
      [] kind = "empty"  -> <<>>

\* The remote host sends a frame: its size in 8 bytes, then the data.
RemoteSendFrame(v, payload) ==
    /\ vsock[v].fd = "open"
    /\ vsock[v].peer = "open"
    /\ Len(frameLog.sent) < MaxFrames
    /\ vsock' = [vsock EXCEPT ![v].rbuf = @ \o ToBytes(Len(payload), 8) \o payload]
    /\ frameLog' = [frameLog EXCEPT !.sent = Append(@, payload)]
    /\ UNCHANGED <<flagVars, hostVars, qualVars, netVars, srv, inp, ui, client_socket,
                   client_receive_thread, latest_frame_data, frame_data, timer_active,
                   image_label, rcv, logVars>>

\* The remote host closes the connection.
RemoteClose(v) ==
    /\ vsock[v].fd = "open"
    /\ vsock[v].peer = "open"
    /\ vsock' = [vsock EXCEPT ![v].peer = "fin"]
    /\ UNCHANGED <<flagVars, hostVars, qualVars, netVars, srv, inp, ui, client_socket,
                   client_receive_thread, latest_frame_data, frame_data, timer_active,
                   image_label, rcv, frameLog, logVars>>

(***************************************************************************)
(* The remote viewer of a connection the host accepted.                    *)
(***************************************************************************)
Args(x, y, button, clicks, key) ==
    [x |-> x, y |-> y, button |-> button, clicks |-> clicks, key |-> key]

Event(t, args) == [type |-> t, args |-> args]

\* Local events of a remote viewer whose label (10 x 6) shows an 8 x 6 pixmap.
RemoteLabel  == <<10, 6>>
RemotePixmap == <<8, 6>>

RemoteEvents ==
    { Event("MOUSE_MOVE",   Args(4, 3, "", 0, "")),
      Event("MOUSE_DOWN",   Args(4, 3, "left", 0, "")),
      Event("MOUSE_UP",     Args(9, 0, "right", 0, "")),
      Event("MOUSE_CLICK",  Args(4, 3, "left", 0, "")),
      Event("MOUSE_SCROLL", Args(0, 0, "", -1, "")),
      Event("KEY_DOWN",     Args(0, 0, "", 0, "a")),
      Event("KEY_UP",       Args(0, 0, "", 0, "enter")) }

Text(t, fields) ==
    LET RECURSIVE Join(_)
        Join(f) == IF f = <<>> THEN <<>> ELSE <<Delimiter>> \o Utf8(Head(f)) \o Join(Tail(f))
    IN  Utf8(t) \o Join(fields)

\* Payloads a peer that is no viewer of this program writes: texts that fail
\* the record grammar, and one that follows it.
RawPayloads ==
    { Text("MOUSE_MOVE", <<"abc">>),
      Text("MOUSE_MOVE", <<"abc">>) \o <<Delimiter, 53>>,       \* MOUSE_MOVE|abc|5
      Text("MOUSE_MOVE", <<>>) \o <<Delimiter, 49>>,            \* MOUSE_MOVE|1
      Text("HELLO", <<>>),
      <<>>,
      <<255>>,
      Text("MOUSE_DOWN", <<"left">>) \o <<Delimiter, 51, Delimiter, 52>> }  \* MOUSE_DOWN|left|3|4

CanWrite(c) ==
    /\ conn[c].fd = "open"
    /\ conn[c].peer = "open"
    /\ Len(sentLog) < MaxMsgs

\* The remote viewer's send_input_events(ev.type, ...) writes a command.
PeerSendInput(c, ev) ==
    /\ CanWrite(c)
    /\ LET command == BuildCommand(ev.type, ev.args, RemotePixmap, RemoteLabel)
       IN  /\ command # NoCommand
           /\ conn' = [conn EXCEPT ![c].rbuf = @ \o FrameCommand(command)]
           /\ sentLog' = Append(sentLog, [origin |-> "viewer", ev |-> ev, text |-> command])
    /\ UNCHANGED <<viewVars, flagVars, hostVars, qualVars, lsock, srv, inp, ui, inLog, status>>

NoEvent == Event("none", Args(0, 0, "", 0, ""))

\* Another peer writes a framed payload.
PeerSendRaw(c, payload) ==
    /\ CanWrite(c)
    /\ conn' = [conn EXCEPT ![c].rbuf = @ \o ToBytes(Len(payload), 4) \o payload]
    /\ sentLog' = Append(sentLog, [origin |-> "raw", ev |-> NoEvent, text |-> payload])
    /\ UNCHANGED <<viewVars, flagVars, hostVars, qualVars, lsock, srv, inp, ui, inLog, status>>

\* What a remote end has written of a message when it dies in the middle of
\* it: half of a length, and a length of 5 with 2 bytes of the payload.
CutMessages == { <<0, 0>>, <<0, 0, 0, 5, 77, 79>> }

\* The remote end writes part of a message and is gone (its socket closes).
PeerSendCut(c, wire) ==
    /\ CanWrite(c)
    /\ conn' = [conn EXCEPT ![c].rbuf = @ \o wire, ![c].peer = "fin"]
    /\ sentLog' = Append(sentLog, [origin |-> "cut", ev |-> NoEvent, text |-> wire])
    /\ UNCHANGED <<viewVars, flagVars, hostVars, qualVars, lsock, srv, inp, ui, inLog, status>>

\* The remote end closes its socket.
PeerClose(c) ==
    /\ conn[c].fd = "open"
    /\ conn[c].peer = "open"
    /\ conn' = [conn EXCEPT ![c].peer = "fin"]
    /\ UNCHANGED <<viewVars, flagVars, hostVars, qualVars, lsock, srv, inp, ui, logVars>>

\* A remote viewer connects to the listening socket l.
PeerConnect(l) ==
    /\ lsock[l].fd = "open"
    /\ Cardinality({c \in Conns : conn[c].fd # "unused"}) + lsock[l].backlog < MaxConns
    /\ lsock' = [lsock EXCEPT ![l].backlog = @ + 1]
    /\ UNCHANGED <<viewVars, flagVars, hostVars, qualVars, conn, srv, inp, ui, logVars>>

\* The remote end resets the connection.
PeerReset(c) ==
    /\ conn[c].fd = "open"
    /\ conn[c].peer = "open"
    /\ conn' = [conn EXCEPT ![c].peer = "rst", ![c].rbuf = <<>>]
    /\ UNCHANGED <<viewVars, flagVars, hostVars, qualVars, lsock, srv, inp, ui, logVars>>

(***************************************************************************)
(* The program after DJRemoteDesktop.__init__.                             *)
(***************************************************************************)
Init ==
    /\ is_server_running = FALSE
    /\ is_streaming = FALSE
    /\ is_client_connected = FALSE
    /\ server_socket = NoObj
    /\ server_connection = NoObj
    /\ screen_stream_thread = NoObj
    /\ input_handler_thread = NoObj
    /\ jpeg_quality = 70
    /\ last_frame_size = 0
    /\ lsock = [l \in Runs |-> UnusedListener]
    /\ conn = [c \in Conns |-> UnusedConn]
    /\ srv = [s \in Runs |-> UnbornServer]
    /\ inp = [t \in Conns |-> UnbornInput]
    /\ ui = "idle"
    /\ client_socket = NoObj
    /\ client_receive_thread = NoObj
    /\ latest_frame_data = NoBytes
    /\ frame_data = NoBytes
    /\ timer_active = FALSE
    /\ image_label = WaitingLabel
    /\ vsock = [v \in Sessions |-> UnusedConn]
    /\ rcv = [r \in Sessions |-> UnbornReceiver]
    /\ frameLog = [sent |-> <<>>, stored |-> <<>>, taken |-> <<>>]
    /\ sentLog = <<>>
    /\ inLog = <<>>
    /\ status = {}

\* The first run of the server serves the first connection, the input
\* handler thread is at the top of its loop, and quality and last_frame_size
\* are as given.
Serving(quality, frame_size) ==
    /\ is_server_running = TRUE
    /\ is_streaming = TRUE
    /\ is_client_connected = FALSE
    /\ server_socket = 1
    /\ server_connection = 1
    /\ screen_stream_thread = 1
    /\ input_handler_thread = 1
    /\ jpeg_quality = quality
    /\ last_frame_size = frame_size
    /\ lsock = [l \in Runs |-> IF l = 1 THEN [fd |-> "open", backlog |-> 0]
                               ELSE UnusedListener]
    /\ conn = [c \in Conns |-> IF c = 1 THEN OpenConn ELSE UnusedConn]
    /\ srv = [s \in Runs |-> IF s = 1 THEN [pc |-> "stream", sock |-> NoObj]
                             ELSE UnbornServer]
    /\ inp = [t \in Conns |-> IF t = 1 THEN [UnbornInput EXCEPT !.pc = "top", !.c = 1]
                              ELSE UnbornInput]
    /\ ui = "idle"
    /\ client_socket = NoObj
    /\ client_receive_thread = NoObj
    /\ latest_frame_data = NoBytes
    /\ frame_data = NoBytes
    /\ timer_active = FALSE
    /\ image_label = WaitingLabel
    /\ vsock = [v \in Sessions |-> UnusedConn]
    /\ rcv = [r \in Sessions |-> UnbornReceiver]
    /\ frameLog = [sent |-> <<>>, stored |-> <<>>, taken |-> <<>>]
    /\ sentLog = <<>>
    /\ inLog = <<>>
    /\ status = {}

\* A step of server thread s, with frames of the sizes given.
ServerStep(s, sizes) ==
    \/ \E port_free \in BOOLEAN : SrvSetup(s, port_free)
    \/ SrvLoop(s)
    \/ SrvAccept(s)
    \/ SrvAcceptTimeout(s)
    \/ SrvAcceptError(s)
    \/ SrvStartInput(s)
    \/ SrvStream(s)
    \/ SrvAdapt(s)
    \/ \E size \in sizes : SrvEncode(s, size)
    \/ SrvCaptureFails(s)
    \/ \E outcome \in {"ok", "error"} : SrvSend(s, outcome)
    \/ SrvStreamFinally(s)
    \/ SrvStreamClose(s)
    \/ SrvFinally(s)
    \/ SrvFinallyClose(s)

ServerThreads(sizes) == \E s \in Runs : ServerStep(s, sizes)

\* The steps of the input handler threads; each recv returns all it can.
InputThreads ==
    \E t \in Conns :
        \/ InTop(t)
        \/ InRecvBytes(t, Min(inp[t].n - Len(inp[t].data), Len(conn[inp[t].c].rbuf)))
        \/ InRecvEnd(t)
        \/ InExec(t)
        \/ InFinally(t)

\* A step of input handler thread t when no command arrives.
IdleInputStep(t) ==
    \/ InTop(t)
    \/ InRecvEnd(t)
    \/ InFinally(t)

IdleInputThreads == \E t \in Conns : IdleInputStep(t)

\* No thread of an earlier session is left.
Quiet ==
    /\ \A s \in Runs : ~ServerAlive(s)
    /\ \A t \in Conns : ~InputAlive(t)
    /\ \A r \in Sessions : ~ReceiverAlive(r)

\* The user has not used this process as a viewer, or as a host.
NeverViewer == \A v \in Sessions : vsock[v].fd = "unused"
NeverHost   == \A s \in Runs : srv[s].pc = "unborn"

\* start_server and stop_server on the UI thread, by a user who starts the
\* server when the threads of earlier sessions have ended, in a process not
\* used as a viewer before.
ServerButtons(join_ends) ==
    \/ Quiet /\ NeverViewer /\ StartServer
    \/ StartServerRefused
    \/ StopServer
    \/ StopServerRefused
    \/ StopServerCloseConn
    \/ StopServerSock
    \/ StopServerCloseSock
    \/ \E ended \in join_ends : StopServerJoinStream(ended)
    \/ \E ended \in join_ends : StopServerJoinInput(ended)

\* Remote viewers that write no commands; one connects when no other is
\* waiting or served and the input handler threads of earlier connections
\* have ended.
NoViewer ==
    /\ \A l \in Runs : lsock[l].backlog = 0
    /\ \A c \in Conns : conn[c].fd # "open"
    /\ \A t \in Conns : ~InputAlive(t)

QuietPeers ==
    \/ \E l \in Runs : NoViewer /\ PeerConnect(l)
    \/ \E c \in Conns : PeerClose(c)

(***************************************************************************)
(* The host role, with compressed frames of every size class.              *)
(***************************************************************************)
FrameSizes == {10000, 50000, 100000, 150000, 200000, 500000}

NextQuality ==
    \/ ServerThreads(FrameSizes)
    \/ IdleInputThreads
    \/ ServerButtons({TRUE})
    \/ QuietPeers

SpecQuality == Init /\ [][NextQuality]_vars

(***************************************************************************)
(* The host role with remote viewers that come and go as they like: one    *)
(* may connect while another is served or while the input handler thread   *)
(* of an earlier connection has not ended yet.                             *)
(***************************************************************************)
AnyPeers ==
    \/ \E l \in Runs : PeerConnect(l)
    \/ \E c \in Conns : PeerClose(c) \/ PeerReset(c)

\* A step of stop_server after its first test.
StopServerStep(join_ends) ==
    \/ StopServerCloseConn
    \/ StopServerSock
    \/ StopServerCloseSock
    \/ \E ended \in join_ends : StopServerJoinStream(ended)
    \/ \E ended \in join_ends : StopServerJoinInput(ended)

NextHost ==
    \/ ServerThreads({100000})
    \/ IdleInputThreads
    \/ ServerButtons(BOOLEAN)
    \/ AnyPeers

SpecHost == Init /\ [][NextHost]_vars

\* Every thread that can run does run: each server thread, each input
\* handler thread, and the UI thread inside stop_server.  Nothing is assumed
\* of the user or of the remote viewers.
HostFairness ==
    /\ \A s \in Runs : WF_vars(ServerStep(s, {100000}))
    /\ \A t \in Conns : WF_vars(IdleInputStep(t))
    /\ WF_vars(StopServerStep(BOOLEAN))

SpecHostFair == SpecHost /\ HostFairness

(***************************************************************************)
(* The host role with a user who does not wait: start_server may be        *)
(* pressed as soon as stop_server has returned, whether or not the threads *)
(* of the run before have ended.                                           *)
(***************************************************************************)
NextRestart ==
    \/ ServerThreads({100000})
    \/ IdleInputThreads
    \/ NeverViewer /\ StartServer
    \/ StopServer
    \/ StopServerStep(BOOLEAN)
    \/ AnyPeers

SpecRestart == Init /\ [][NextRestart]_vars

(***************************************************************************)
(* The adaptive quality logic on its own: the stream loop of a served      *)
(* connection, from every quality the steps of 5 from 70 give and every    *)
(* size of the frame before, with frames at and around the target sizes.   *)
(***************************************************************************)
QualityLevels == {20 + 5 * i : i \in 0..14}

ControllerSizes == {10000, 49999, 50000, 100000, 150000, 150001, 200000, 500000}

InitController ==
    \E quality \in QualityLevels : \E frame_size \in ControllerSizes \cup {0} :
        Serving(quality, frame_size)

NextController ==
    \/ SrvStream(1)
    \/ SrvAdapt(1)
    \/ \E size \in ControllerSizes : SrvEncode(1, size)
    \/ SrvSend(1, "ok")

SpecController == InitController /\ [][NextController]_vars

\* A step of receive thread r; each recv returns all it can.
ReceiveStep(r) ==
    \/ RcvTop(r)
    \/ RcvBytes(r, Min(rcv[r].n - Len(rcv[r].data), Len(vsock[rcv[r].sock].rbuf)))
    \/ RcvEnd(r)
    \/ RcvFinally(r)

ReceiveThreads == \E r \in Sessions : ReceiveStep(r)

\* A step of stop_client_session in thread k, which called it.
TeardownStep(k, join_ends) ==
    \/ ScsGuard(k)
    \/ ScsFlags(k)
    \/ ScsClose(k)
    \/ \E ended \in join_ends : ScsJoin(k, ended)
    \/ ScsFinish(k)

Teardowns(join_ends) == \E k \in {MainThread} \cup Sessions : TeardownStep(k, join_ends)

\* start_client (by a user who connects when the threads of earlier sessions
\* have ended, in a process not used as a host before), the Disconnect
\* button and the ticks of the update timer.
ClientButtons ==
    \/ \E outcome \in ConnectOutcomes : Quiet /\ NeverHost /\ StartClient(outcome)
    \/ \E ip_given \in BOOLEAN : StartClientRefused(ip_given)
    \/ StopClientSession
    \/ StopClientSessionRefused
    \/ UpdateTake
    \/ UpdateDecode

\* The remote host: it sends frames of the kinds given, and ends the
\* connection.
RemoteHost(kinds) ==
    \E v \in Sessions :
        \/ \E kind \in kinds : RemoteSendFrame(v, Frame(kind, Len(frameLog.sent) + 1))
        \/ RemoteClose(v)

(***************************************************************************)
(* The viewer role.                                                        *)
(***************************************************************************)
NextViewer ==
    \/ ClientButtons
    \/ ReceiveThreads
    \/ Teardowns(BOOLEAN)
    \/ RemoteHost({"jpeg"})

SpecViewer == Init /\ [][NextViewer]_vars

\* A step of a thread that is running code: a receive thread, or the UI
\* thread inside a handler it has entered (a join either sees the thread end
\* or times out after 2 s).
ViewerThreadStep ==
    \/ \E r \in Sessions :
           \/ RcvTop(r)
           \/ \E v \in Sessions : \E k \in 1..Len(vsock[v].rbuf) : RcvBytes(r, k)
           \/ RcvEnd(r)
           \/ RcvFinally(r)
    \/ Teardowns(BOOLEAN)
    \/ UpdateDecode

\* The processor does not stay idle while a thread can run.  Nothing is
\* assumed of the user, of the timer's ticks or of the remote host.
ViewerFairness == WF_vars(ViewerThreadStep)

SpecViewerFair == SpecViewer /\ ViewerFairness

(***************************************************************************)
(* The viewer role with local input: pointer and key events of the image   *)
(* label, at points of the label inside and outside the picture.           *)
(***************************************************************************)
LocalEvents ==
    { Event("MOUSE_MOVE", Args(9, 5, "", 0, "")),
      Event("MOUSE_DOWN", Args(4, 3, "left", 0, "")),
      Event("KEY_DOWN",   Args(0, 0, "", 0, "a")) }

LocalInput(events) ==
    \/ SendInputEventsRefused
    \/ \E ev \in events : \E outcome \in {"ok", "error"} : SendInputEvents(ev, outcome)

NextPointer ==
    \/ ClientButtons
    \/ ReceiveThreads
    \/ Teardowns(BOOLEAN)
    \/ RemoteHost({"jpeg"})
    \/ LocalInput(LocalEvents)

SpecPointer == Init /\ [][NextPointer]_vars

(***************************************************************************)
(* The viewer role with key presses as its local input.                    *)
(***************************************************************************)
KeyEvents == { Event("KEY_DOWN", Args(0, 0, "", 0, "a")) }

NextKeys ==
    \/ ClientButtons
    \/ ReceiveThreads
    \/ Teardowns(BOOLEAN)
    \/ RemoteHost({"jpeg"})
    \/ LocalInput(KeyEvents)

SpecKeys == Init /\ [][NextKeys]_vars

SpecKeysFair == SpecKeys /\ ViewerFairness

(***************************************************************************)
(* The viewer role, with frames that do not decode among those sent.       *)
(***************************************************************************)
NextDecode ==
    \/ ClientButtons
    \/ ReceiveThreads
    \/ Teardowns(BOOLEAN)
    \/ RemoteHost(FrameKinds)

SpecDecode == Init /\ [][NextDecode]_vars

(***************************************************************************)
(* The program: one process that is host and viewer by turns.              *)
(***************************************************************************)
Next ==
    \/ ServerThreads({100000})
    \/ IdleInputThreads
    \/ ServerButtons(BOOLEAN)
    \/ QuietPeers
    \/ ClientButtons
    \/ ReceiveThreads
    \/ Teardowns(BOOLEAN)
    \/ RemoteHost({"jpeg"})

Spec == Init /\ [][Next]_vars

(***************************************************************************)
(* The input channel: a host that serves connection 1, its input handler   *)
(* thread, and the remote end writing commands.  What arrives is read in   *)
(* pieces of any size.                                                     *)
(***************************************************************************)
InitInput == Serving(70, 0)

NextInput ==
    \/ \E ev \in RemoteEvents : PeerSendInput(1, ev)
    \/ \E payload \in RawPayloads : PeerSendRaw(1, payload)
    \/ PeerClose(1)
    \/ \E wire \in CutMessages : PeerSendCut(1, wire)
    \/ InTop(1)
    \/ \E k \in 1..Len(conn[1].rbuf) : InRecvBytes(1, k)
    \/ InRecvEnd(1)
    \/ InExec(1)
    \/ InFinally(1)

SpecInput == InitInput /\ [][NextInput]_vars

(***************************************************************************)
(* A session without faults and without stop requests, seen from either    *)
(* end.  As the host: the port is free, one remote viewer connects, stays  *)
(* and writes commands, every capture and every send succeeds.  As a       *)
(* viewer: the connect succeeds and the remote host sends frames.          *)
(***************************************************************************)
\* MOUSE_MOVE|100|200
MoveRecord ==
    Utf8("MOUSE_MOVE") \o <<Delimiter>> \o IntToStr(100) \o <<Delimiter>> \o IntToStr(200)

ScenarioPayloads == { MoveRecord, Text("KEY_DOWN", <<"a">>) }

ScenarioServerStep(s) ==
    \/ SrvSetup(s, TRUE)
    \/ SrvLoop(s)
    \/ SrvAccept(s)
    \/ SrvAcceptTimeout(s)
    \/ SrvStartInput(s)
    \/ SrvStream(s)
    \/ SrvAdapt(s)
    \/ SrvEncode(s, 100000)
    \/ SrvSend(s, "ok")

ScenarioInputStep(t) ==
    \/ InTop(t)
    \/ \E c \in Conns : \E k \in 1..Len(conn[c].rbuf) : InRecvBytes(t, k)
    \/ InExec(t)

ScenarioReceiveStep(r) ==
    \/ RcvTop(r)
    \/ \E v \in Sessions : \E k \in 1..Len(vsock[v].rbuf) : RcvBytes(r, k)

\* A tick of the update timer that finds a frame, and the decode after it.
ScenarioTimerStep == UpdateTake \/ UpdateDecode

ScenarioRemoteHostStep ==
    \E v \in Sessions : RemoteSendFrame(v, Frame("jpeg", Len(frameLog.sent) + 1))

NextScenario ==
    \/ Quiet /\ NeverViewer /\ StartServer
    \/ \E s \in Runs : ScenarioServerStep(s)
    \/ \E t \in Conns : ScenarioInputStep(t)
    \/ \E l \in Runs : NoViewer /\ PeerConnect(l)
    \/ \E c \in Conns : \E payload \in ScenarioPayloads : PeerSendRaw(c, payload)
    \/ Quiet /\ NeverHost /\ StartClient("ok")
    \/ \E r \in Sessions : ScenarioReceiveStep(r)
    \/ ScenarioTimerStep
    \/ ScenarioRemoteHostStep

\* The threads run, the update timer ticks, and a remote host that serves
\* this viewer streams.  Nothing is assumed of the user or of what a remote
\* viewer writes.
ScenarioFairness ==
    /\ \A s \in Runs : WF_vars(ScenarioServerStep(s))
    /\ \A t \in Conns : WF_vars(ScenarioInputStep(t))
    /\ \A r \in Sessions : WF_vars(ScenarioReceiveStep(r))
    /\ WF_vars(ScenarioTimerStep)
    /\ WF_vars(ScenarioRemoteHostStep)

SpecScenario == Init /\ [][NextScenario]_vars /\ ScenarioFairness

(***************************************************************************)
(* The two directions of a session, each at the end that receives: the     *)
(* process as a viewer receiving frames, or as the host of connection 1    *)
(* receiving commands.                                                     *)
(***************************************************************************)
InitOrder == Init \/ InitInput

NextOrder == NextViewer \/ NextInput

SpecOrder == InitOrder /\ [][NextOrder]_vars

(***************************************************************************)
(* The record grammar of the input channel, as the specification gives it: *)
(*   MOUSE_MOVE|x|y      MOUSE_DOWN, MOUSE_UP, MOUSE_CLICK|button|x|y      *)
(*   MOUSE_SCROLL|clicks    KEY_DOWN, KEY_UP|keyname                       *)
(* A record is written as the injection call it asks for.                  *)
(***************************************************************************)
GrammarText(R) ==
    Utf8(R.type) \o
    CASE R.type = "MOUSE_MOVE" ->
             <<Delimiter>> \o IntToStr(R.x) \o <<Delimiter>> \o IntToStr(R.y)
      [] R.type \in {"MOUSE_DOWN", "MOUSE_UP", "MOUSE_CLICK"} ->
             <<Delimiter>> \o R.button \o <<Delimiter>> \o IntToStr(R.x)
                           \o <<Delimiter>> \o IntToStr(R.y)
      [] R.type = "MOUSE_SCROLL" -> <<Delimiter>> \o IntToStr(R.clicks)
      [] R.type \in {"KEY_DOWN", "KEY_UP"} -> <<Delimiter>> \o R.key

GrammarCoords == {0, 3, 4, 7}

\* Records of the grammar whose text fields hold no delimiter.
GrammarRecords ==
    {Call("MOUSE_MOVE", <<>>, x, y, 0, <<>>) : x \in GrammarCoords, y \in GrammarCoords}
    \cup UNION {{Call(t, b, x, y, 0, <<>>) : x \in GrammarCoords, y \in GrammarCoords} :
                    t \in {"MOUSE_DOWN", "MOUSE_UP", "MOUSE_CLICK"}, b \in ButtonNames}
    \cup {Call("MOUSE_SCROLL", <<>>, 0, 0, c, <<>>) : c \in {-1, 0, 2}}
    \cup {Call(t, <<>>, 0, 0, 0, Utf8(k)) : t \in {"KEY_DOWN", "KEY_UP"}, k \in {"a", "enter"}}

GrammarTexts == {GrammarText(R) : R \in GrammarRecords}

\* The record of the grammar a viewer's event stands for: the type, and the
\* field values the viewer computed for it.
IntendedCall(ev) ==
    LET x == MapAxis(ev.args.x, RemoteLabel[1], RemotePixmap[1], RemotePixmap[1])
        y == MapAxis(ev.args.y, RemoteLabel[2], RemotePixmap[2], RemotePixmap[2])
    IN  CASE ev.type = "MOUSE_MOVE" -> Call(ev.type, <<>>, x, y, 0, <<>>)
          [] ev.type \in {"MOUSE_DOWN", "MOUSE_UP", "MOUSE_CLICK"} ->
                 Call(ev.type, Utf8(ev.args.button), x, y, 0, <<>>)
          [] ev.type = "MOUSE_SCROLL" -> Call(ev.type, <<>>, 0, 0, ev.args.clicks, <<>>)
          [] ev.type \in {"KEY_DOWN", "KEY_UP"} -> Call(ev.type, <<>>, 0, 0, 0, Utf8(ev.args.key))

(***************************************************************************)
(* C1.  Round trip of the input channel: every command a viewer's          *)
(* send_input_events wrote, once handle_client_input has read and parsed   *)
(* it, gave the injection call of the same type with the same field        *)
(* values.  (The k-th command read is the k-th written.)                   *)
(***************************************************************************)
C1_RoundTrip ==
    \A i \in 1..Len(inLog) :
        sentLog[i].origin = "viewer" => inLog[i].call = IntendedCall(sentLog[i].ev)

\* What does hold: the round trip of the commands whose text follows the grammar.
C1_RoundTripOfGrammarTexts ==
    \A i \in 1..Len(inLog) :
        (sentLog[i].origin = "viewer" /\ sentLog[i].text \in GrammarTexts)
            => inLog[i].call = IntendedCall(sentLog[i].ev)

(***************************************************************************)
(* C2.  A command with a field that is no integer where the grammar asks   *)
(* for one is dropped: no injection call, the input loop goes on to its    *)
(* next iteration with the streaming flag as it was, and a command of the  *)
(* grammar read after it is injected as the record it denotes.             *)
(***************************************************************************)
\* No integer under any reading: empty, or a byte that is no digit, sign,
\* space or underscore.
NotAnInteger(s) ==
    \/ s = <<>>
    \/ \E i \in 1..Len(s) : ~(IsDigit(s[i]) \/ s[i] \in {43, 45, 32, 95})

IntegerFields(cmd_type) ==
    IF cmd_type = Utf8("MOUSE_MOVE") THEN {2, 3}
    ELSE IF cmd_type \in {Utf8("MOUSE_DOWN"), Utf8("MOUSE_UP"), Utf8("MOUSE_CLICK")} THEN {3, 4}
    ELSE IF cmd_type = Utf8("MOUSE_SCROLL") THEN {2}
    ELSE {}

HasNonIntegerField(cmd) ==
    /\ Utf8Ok(cmd)
    /\ LET parts == Split(cmd, Delimiter)
       IN  \E k \in IntegerFields(parts[1]) : k <= Len(parts) /\ NotAnInteger(parts[k])

C2_Dropped ==
    \A i \in 1..Len(inLog) :
        HasNonIntegerField(inLog[i].cmd) =>
            /\ inLog[i].call = NoCall
            /\ \A j \in (i + 1)..Len(inLog) : \A R \in GrammarRecords :
                   inLog[j].cmd = GrammarText(R) => inLog[j].call = R

C2_LoopGoesOn ==
    \A t \in Conns :
        (inp[t].pc = "exec" /\ HasNonIntegerField(inp[t].cmd) /\ inp'[t] # inp[t])
            => (inp'[t].pc = "top" /\ is_streaming' = is_streaming /\ conn' = conn)

C2_NonIntegerDropped == []C2_Dropped /\ [][C2_LoopGoesOn]_vars

C2_Witness ==
    \E i \in 1..Len(inLog) : \E j \in (i + 1)..Len(inLog) :
        /\ HasNonIntegerField(inLog[i].cmd)
        /\ inLog[j].cmd \in GrammarTexts
        /\ inLog[j].call # NoCall

(***************************************************************************)
(* C3.  The latest-frame buffer holds at most one payload.  Every consume  *)
(* that returns a payload returns the one stored last before it, no stored *)
(* payload is returned by a later consume than the first after it, and a   *)
(* payload stored before a newer one that was not consumed in between is   *)
(* never returned.  From an empty buffer the consumer takes nothing: it    *)
(* does not wait, it starts no decode, and the buffer stays empty until    *)
(* the receive loop stores a frame.                                        *)
(***************************************************************************)
C3_LatestOnly ==
    /\ \A i \in 1..Len(frameLog.taken) :
           LET t == frameLog.taken[i]
           IN  /\ t.stored \in 1..Len(frameLog.stored)
               /\ t.data = frameLog.stored[t.stored]
               /\ i > 1 => frameLog.taken[i - 1].stored < t.stored
               /\ \A j \in 1..Len(frameLog.stored) :
                      frameLog.stored[j] = t.data => j = t.stored
    /\ latest_frame_data # NoBytes =>
           /\ frameLog.stored # <<>>
           /\ latest_frame_data = frameLog.stored[Len(frameLog.stored)]
           /\ \A i \in 1..Len(frameLog.taken) :
                  frameLog.taken[i].stored < Len(frameLog.stored)

C3_ConsumeDoesNotWait == (ui = "idle" /\ timer_active) => ENABLED UpdateTake

C3_EmptyConsume ==
    latest_frame_data = NoBytes =>
        /\ ui = "idle" => (ui' # "decode" /\ frame_data' = NoBytes)
        /\ frameLog'.taken = frameLog.taken
        /\ latest_frame_data' # NoBytes => frameLog'.stored # frameLog.stored

C3_LatestFrameBuffer ==
    [](C3_LatestOnly /\ C3_ConsumeDoesNotWait) /\ [][C3_EmptyConsume]_vars

\* Two frames were stored before a consume, which returned the second.
C3_Witness ==
    \E i \in 1..Len(frameLog.taken) :
        LET before == IF i = 1 THEN 0 ELSE frameLog.taken[i - 1].stored
        IN  /\ frameLog.taken[i].stored >= before + 2
            /\ frameLog.taken[i].data = frameLog.stored[frameLog.taken[i].stored]
            /\ frameLog.taken[i].data # frameLog.stored[before + 1]

(***************************************************************************)
(* C4.  The step of the quality controller: from quality q and the size s  *)
(* of the frame before, the next quality is max(20, q-5) if s > 150000,    *)
(* min(90, q+5) if s < 50000 and q < 90, and q otherwise; so (200000, 70)  *)
(* gives 65, (10000, 85) gives 90 and (500000, 20) gives 20.  It holds of  *)
(* every step the stream loop makes, and of the logic for every q in       *)
(* 20..90.                                                                 *)
(***************************************************************************)
ControllerStep(q, s) ==
    IF s > 150000 THEN (IF q - 5 > 20 THEN q - 5 ELSE 20)
    ELSE IF s < 50000 /\ q < 90 THEN (IF q + 5 < 90 THEN q + 5 ELSE 90)
    ELSE q

C4_StepTaken ==
    \A s \in Runs :
        (srv[s].pc = "capture" /\ srv'[s].pc = "encode")
            => jpeg_quality' = ControllerStep(jpeg_quality, last_frame_size)

C4_Logic ==
    /\ \A q \in 20..90 : \A s \in ControllerSizes \cup {0} :
           AdaptQuality(q, s) = ControllerStep(q, s)
    /\ AdaptQuality(70, 200000) = 65
    /\ AdaptQuality(85, 10000) = 90
    /\ AdaptQuality(20, 500000) = 20

C4_ControllerStep == []C4_Logic /\ [][C4_StepTaken]_vars

\* The step was taken from (200000, 70): only 70 gives 65.
C4_Witness ==
    /\ srv[1].pc = "encode"
    /\ last_frame_size = 200000
    /\ jpeg_quality = 65

(***************************************************************************)
(* C5.  The quality is an integer in 20..90 in every state, whatever       *)
(* frames, connections and restarts of the server came before.             *)
(***************************************************************************)
C5_QualityInRange == jpeg_quality \in 20..90

\* The floor and the ceiling were reached, in the second run of the server.
C5_Witness ==
    /\ jpeg_quality \in {20, 90}
    /\ last_frame_size \in {10000, 200000}
    /\ ServerAlive(2)
    /\ srv[2].pc = "encode"
    /\ conn[2].fd = "open"

(***************************************************************************)
(* C6.  Teardown is idempotent.  When stop_server or stop_client_session   *)
(* returns, its role flag is false; and a call made while the role flag is *)
(* false does not enter the body of the teardown: it changes no flag,      *)
(* closes no socket, joins no thread and raises nothing.  So two calls in  *)
(* a row leave the state that one leaves.  That state: when stop_server    *)
(* returns and the threads of the host role have ended, the streaming flag *)
(* is false, server_socket and server_connection are None and their        *)
(* sockets closed; when stop_client_session returns from a connected       *)
(* session, the streaming flag is false, client_socket is None and every   *)
(* socket that was connected is closed.                                    *)
(***************************************************************************)
StopServerBody == {"ss_close_conn", "ss_sock", "ss_close_sock", "ss_join_stream",
                   "ss_join_input"}
StopClientBody == {"sc_flags", "sc_close", "sc_join", "sc_finish"}

C6_SecondCall ==
    /\ (ui = "idle" /\ ~is_server_running) => ui' \notin StopServerBody
    /\ (ui \in {"idle", "sc_guard"} /\ ~is_client_connected) => ui' \notin StopClientBody

HostThreadsEnded == (\A s \in Runs : ~ServerAlive(s)) /\ (\A t \in Conns : ~InputAlive(t))

C6_FirstCall ==
    /\ (ui \in StopServerBody /\ ui' = "idle") => ~is_server_running'
    /\ (ui \in StopServerBody /\ ui' = "idle" /\ HostThreadsEnded') =>
           /\ ~is_streaming'
           /\ server_socket' = NoObj /\ server_connection' = NoObj
           /\ \A l \in Runs : lsock'[l].fd # "open"
           /\ \A c \in Conns : conn'[c].fd # "open"
    /\ (ui \in StopClientBody \cup {"sc_guard"} /\ ui' = "idle") =>
           (~is_client_connected' /\ client_socket' = NoObj)
    /\ (ui \in StopClientBody /\ ui' = "idle") =>
           /\ ~is_streaming'
           /\ \A v \in Sessions : vsock'[v].peer # "none" => vsock'[v].fd # "open"

Decodes(z) == DecompressOk(z) /\ ImDecodeOk(Decompress(z))

C7_DecodeFailureDropsFrame ==
    ( /\ frame_data # NoBytes
      /\ ~Decodes(frame_data)
      /\ \A v \in Sessions : vsock[v].peer # "fin"
      /\ \A i \in 1..Len(frameLog.sent) : frameLog.sent[i] # <<>> )
    => ( /\ is_client_connected
         /\ client_socket # NoObj
         /\ vsock[client_socket].fd = "open" )

(***************************************************************************)
(* C8.  A message that fails the record grammar is not fatal: while the    *)
(* remote end has sent nothing but such messages and keeps the connection  *)
(* open, the input loop is running, the streaming flag is true and the     *)
(* connection is open.                                                     *)
(***************************************************************************)
C8_MalformedNotFatal ==
    \A t \in Conns :
        ( /\ inp[t].pc # "unborn"
          /\ is_server_running
          /\ conn[t].peer = "open"
          /\ \A i \in 1..Len(sentLog) : sentLog[i].text \notin GrammarTexts )
        => ( /\ inp[t].pc \notin {"finally", "done"}
             /\ is_streaming
             /\ conn[t].fd = "open" /\ ~conn[t].shut )

(***************************************************************************)
(* C9.  When stop_client_session returns from a connected session, the     *)
(* session is not connected, its socket is closed, client_socket is None   *)
(* and the latest-frame buffer is empty.                                   *)
(***************************************************************************)
C9_Returns == ui = "sc_finish" /\ ui' = "idle"

C9_DisconnectClears ==
    [][C9_Returns =>
         /\ ~is_client_connected'
         /\ client_socket' = NoObj
         /\ \A v \in Sessions : vsock'[v].peer # "none" => vsock'[v].fd \in {"unused", "closed"}
         /\ latest_frame_data' = NoBytes]_vars

\* What does hold when it returns.
C9_FlagAndSocket ==
    [][C9_Returns =>
         /\ ~is_client_connected'
         /\ client_socket' = NoObj
         /\ \A v \in Sessions : vsock'[v].peer # "none" => vsock'[v].fd \in {"unused", "closed"}]_vars

(***************************************************************************)
(* C10.  When stop_server returns, no server thread and no input handler   *)
(* thread is running; when stop_client_session returns, no receive thread  *)
(* is running.                                                             *)
(***************************************************************************)
C10_TasksJoined ==
    [][ /\ (ui = "ss_join_input" /\ ui' = "idle") =>
              /\ \A s \in Runs : srv'[s].pc \in {"unborn", "done"}
              /\ \A t \in Conns : inp'[t].pc \in {"unborn", "done"}
        /\ (ui = "sc_finish" /\ ui' = "idle") =>
              \A r \in Sessions : rcv'[r].pc \in {"unborn", "done", "died"} ]_vars

(***************************************************************************)
(* C11.  When the remote host has closed the connection of a viewer        *)
(* session whose receive thread is running, the receive thread eventually  *)
(* ends, with the session not connected and its socket closed, and with an *)
(* error notification emitted: that of the receive loop, whose read ended, *)
(* unless this process ended the session itself before the loop read on    *)
(* (then the loop ends at its test, and the teardown that cleared the flag *)
(* is the one that reports).                                               *)
(***************************************************************************)
ErrorReported == \E n \in status : n.severity = "error"

ReceiveErrorNotes == {LostAtSizeNote, LostAtDataNote, ReceiveErrorNote, GeneralReceiveErrorNote}

HostClosed(v) == vsock[v].peer = "fin" /\ ReceiverAlive(v)

ViewerDisconnected(v) ==
    /\ ~ReceiverAlive(v)
    /\ ~is_client_connected
    /\ ~is_streaming
    /\ client_socket = NoObj
    /\ vsock[v].fd = "closed"

C11_LoopEnd ==
    \A r \in Sessions :
        (ReceiverAlive(r) /\ rcv'[r].pc = "finally" /\ rcv[r].pc # "finally") =>
            \/ status' \cap ReceiveErrorNotes # {}
            \/ rcv[r].pc = "top" /\ (~is_client_connected \/ ~is_streaming)

C11_ClosePropagates ==
    /\ \A v \in Sessions : HostClosed(v) ~> ViewerDisconnected(v)
    /\ [][C11_LoopEnd]_vars

\* The host closed, the receive loop reported it and its thread has ended.
C11_Witness ==
    /\ rcv[1].pc \in {"done", "died"}
    /\ LostAtSizeNote \in status
    /\ ViewerDisconnected(1)
    /\ ui = "idle"
    /\ SessionEndedNote \notin status

(***************************************************************************)
(* C12: once stop_server has cleared the running flag and has closed the   *)
(* active connection and the listening socket, the server thread (in its   *)
(* accept loop or in its stream loop) and the input handler threads end,   *)
(* wherever they were (in accept, in a recv, in a send), and no message of *)
(* a remote viewer is needed for it.                                       *)
(***************************************************************************)
StopServerClosed == ui = "ss_join_stream"

ConnectionEnding(s) == srv[s].pc \in {"sfinally", "sclose"}

AcceptingAgain(s) == srv[s].pc = "accept"

\* The listener comes back to accept, unless the server is stopped.
C13_AcceptsAgain ==
    \A s \in Runs : ConnectionEnding(s) ~> (AcceptingAgain(s) \/ ~is_server_running)

\* The remote end of the connection served has done nothing to end it.
PeerStays(c) == c # NoObj /\ conn[c].fd = "open" /\ conn[c].peer = "open"

C13_ServedUntilItsEnd ==
    [][\A s \in Runs :
          (srv[s].pc = "stream" /\ srv'[s].pc = "sfinally" /\ is_server_running)
              => ~PeerStays(server_connection)]_vars

(***************************************************************************)
(* C14: at most one accepted connection is served at a time.  No server    *)
(* thread is in accept while a stream loop is running, no two stream loops *)
(* run at once, and no connection has two input loops.                     *)
(***************************************************************************)
InStreamLoop(s) == srv[s].pc \in {"stream", "capture", "encode", "send"}

\* Thread s is in an accept() that can return a connection.
Accepting(s) == srv[s].pc = "accept" /\ lsock[srv[s].sock].fd = "open"

C14_OneConnectionServed ==
    /\ \A s1, s2 \in Runs : ~(Accepting(s1) /\ InStreamLoop(s2))
    /\ \A s1, s2 \in Runs : InStreamLoop(s1) /\ InStreamLoop(s2) => s1 = s2
    /\ \A t1, t2 \in Conns :
          (inp[t1].pc # "unborn" /\ inp[t2].pc # "unborn"
              /\ inp[t1].c # NoObj /\ inp[t1].c = inp[t2].c) => t1 = t2

(***************************************************************************)
(* C15: when the input loop of the connection being served ends (its recv  *)
(* returned b'' or raised), the input handler thread clears is_streaming;  *)
(* the stream loop leaves at its next test of the flag; and the connection *)
(* ends shut down and closed.                                              *)
(***************************************************************************)
\* The input handler thread of the active connection c has left its loop.
ActiveInputEnded(c) ==
    server_connection = c /\ \E t \in Conns : inp[t].pc = "finally" /\ inp[t].c = c

C15_FlagCleared ==
    \A t \in Conns : (inp[t].pc = "finally" /\ inp'[t].pc = "done") => ~is_streaming'

C15_ExitAtTest ==
    \A s \in Runs :
        (srv[s].pc = "stream" /\ srv'[s] # srv[s] /\ ~is_streaming) => srv'[s].pc = "sfinally"

SessionOver ==
    /\ ConnectedNote \in status
    /\ ~is_client_connected
    /\ ui = "idle"
    /\ \A r \in Sessions : ~ReceiverAlive(r)

C16_SessionEndNotified == SessionOver => SessionEndedNote \in status

(***************************************************************************)
(* C17: a connect that is refused, that times out or whose address does    *)
(* not resolve emits the error notification of its class, and the three    *)
(* notifications differ; after any failed connect is_client_connected and  *)
(* is_streaming are false, and no receive thread was started.              *)
(***************************************************************************)
FailureClasses == {"refused", "timeout", "gaierror"}

ClassNote(class) ==
    CASE class = "refused"  -> RefusedNote
      [] class = "timeout"  -> TimedOutNote
      [] class = "gaierror" -> InvalidIpNote

C17_NotStarted ==
    /\ ~is_client_connected' /\ ~is_streaming'
    /\ rcv' = rcv /\ client_receive_thread' = client_receive_thread
    /\ ui' = "idle"

C17_FailedConnect ==
    /\ [][\A class \in FailureClasses :
             StartClient(class) => status' = {ClassNote(class)} /\ C17_NotStarted]_vars
    /\ [][StartClient("oserror") => ErrorReported' /\ C17_NotStarted]_vars
    /\ [](\A c1, c2 \in FailureClasses :
             /\ ClassNote(c1).severity = "error"
             /\ ClassNote(c1) = ClassNote(c2) => c1 = c2)

\* A connect has timed out: its notification, and no session.
C17_Witness ==
    /\ status = {TimedOutNote}
    /\ client_socket # NoObj /\ vsock[client_socket].peer = "none"
    /\ ~is_client_connected /\ ~is_streaming
    /\ \A r \in Sessions : rcv[r].pc = "unborn"

(***************************************************************************)
(* C18: after a sendall of send_input_events has failed, the handler calls *)
(* the teardown of the viewer session: when it has returned,               *)
(* is_client_connected is false, and the session comes to the state in     *)
(* which its socket is closed and its receive thread has ended (the        *)
(* receive thread may be the one that closes the socket, when it runs the  *)
(* teardown at the same time).  And send_input_events writes nothing when  *)
(* there is no connected session.                                          *)
(***************************************************************************)
SendFailed == SendErrorNote \in status

SessionTornDown ==
    /\ ~is_client_connected
    /\ client_socket = NoObj
    /\ \A v \in Sessions : vsock[v].peer # "none" => vsock[v].fd # "open"

C18_NothingWritten == sentLog' # sentLog => ~NoSession

C18_WriteErrorTearsDown ==
    /\ [](SendFailed /\ ui = "idle" => ~is_client_connected)
    /\ SendFailed ~> (SessionTornDown /\ \A r \in Sessions : ~ReceiverAlive(r))
    /\ [][C18_NothingWritten]_vars

\* A send failed, the UI thread ran the teardown to its end, and the receive
\* thread has ended.
C18_Witness ==
    /\ SendFailed /\ SessionEndedNote \in status
    /\ ui = "idle" /\ SessionTornDown
    /\ rcv[1].pc = "done"

(***************************************************************************)
(* C19: the x and y written in a MOUSE_MOVE, MOUSE_DOWN or MOUSE_UP        *)
(* command for a pointer event on a displayed frame are the point of the   *)
(* label less the centering offsets, times (original / scaled) per axis,   *)
(* clamped to [0, W - 1] and [0, H - 1], where W x H is the size of the    *)
(* frame the remote host captured.                                         *)
(***************************************************************************)
\* The last entry of a sequence.
Last(seq) == seq[Len(seq)]

\* The x and y fields of a pointer command (the second and the third).
SentXY(text) ==
    LET parts == Split(text, Delimiter)
    IN  <<PyInt(parts[2]), PyInt(parts[3])>>

\* The point of the raw frame that the point (x, y) of the label shows.
RawXY(x, y) ==
    LET scaled == QSizeScaled(RawFrameSize, ContentsRect)
    IN  <<MapAxis(x, ContentsRect[1], scaled[1], RawFrameSize[1]),
          MapAxis(y, ContentsRect[2], scaled[2], RawFrameSize[2])>>

\* This step writes a command for a local pointer event.
PointerWritten(types) ==
    /\ Len(sentLog') = Len(sentLog) + 1
    /\ Last(sentLog').origin = "local"
    /\ Last(sentLog').ev.type \in types

C19_MapsToRawFrame ==
    [][(PointerWritten({"MOUSE_MOVE", "MOUSE_DOWN", "MOUSE_UP"})
            /\ image_label.pixmap # NoPixmap)
          => SentXY(Last(sentLog').text)
               = RawXY(Last(sentLog').ev.args.x, Last(sentLog').ev.args.y)]_vars

(***************************************************************************)
(* C20: no MOUSE_* command is written for a local pointer event while the  *)
(* label shows no frame, as it does from the connect until the first frame *)
(* of the session has been displayed.                                      *)
(***************************************************************************)
C20_NoPointerBeforeFrame ==
    [][PointerWritten({"MOUSE_MOVE", "MOUSE_DOWN", "MOUSE_UP", "MOUSE_SCROLL"})
          => image_label.pixmap # NoPixmap]_vars

(***************************************************************************)
(* C21: _recv_all(sock, n) for n > 0 returns the next n bytes of the       *)
(* stream, in order, however recv splits them: while it runs, what it has  *)
(* gathered is the bytes last consumed and fewer than n; when it returns   *)
(* its result, that is the n bytes that follow the bytes consumed before   *)
(* the call, and the bytes behind them are still in the socket.  When recv *)
(* returns b'' first (the remote end closed), the call returns None: the   *)
(* loop ends and what was gathered is not used as a command.               *)
(***************************************************************************)
\* The bytes the remote end has written on the input channel, in order.
RECURSIVE WrittenBytes(_)
WrittenBytes(log) ==
    IF log = <<>> THEN <<>>
    ELSE WrittenBytes(SubSeq(log, 1, Len(log) - 1))
             \o (IF Last(log).origin = "cut" THEN Last(log).text
                 ELSE ToBytes(Len(Last(log).text), 4) \o Last(log).text)

\* How many of them the host has consumed from connection c.
Consumed(c) == Len(WrittenBytes(sentLog)) - Len(conn[c].rbuf)

InRecvAll(t) == inp[t].pc \in {"len", "data"}

\* seq[from..to], as far as seq goes.
Slice(seq, from, to) == [i \in 1..(Min(to, Len(seq)) - from + 1) |-> seq[from + i - 1]]

\* The result of the _recv_all that thread t is in, if it returns one.
NextBytes(t) ==
    LET from == Consumed(inp[t].c) - Len(inp[t].data)
    IN  Slice(WrittenBytes(sentLog), from + 1, from + inp[t].n)

C21_Gathering ==
    \A t \in Conns :
        InRecvAll(t) =>
            /\ inp[t].n > 0
            /\ Len(inp[t].data) < inp[t].n
            /\ inp[t].data = Slice(NextBytes(t), 1, Len(inp[t].data))

\* The call of thread t returns a result in this step (the last recv of it
\* consumed bytes).
RecvAllReturns(t) ==
    InRecvAll(t) /\ inp'[t].pc # inp[t].pc /\ conn'[inp[t].c].rbuf # conn[inp[t].c].rbuf

C21_Result ==
    \A t \in Conns :
        RecvAllReturns(t) =>
            /\ Len(NextBytes(t)) = inp[t].n
            /\ Consumed(inp[t].c)' = Consumed(inp[t].c) + inp[t].n - Len(inp[t].data)
            /\ conn[inp[t].c].rbuf
                   = Slice(NextBytes(t), Len(inp[t].data) + 1, inp[t].n) \o conn'[inp[t].c].rbuf
            /\ inp[t].pc = "data" => inp'[t].pc = "exec" /\ inp'[t].cmd = NextBytes(t)
            /\ inp[t].pc = "len" =>
                   IF FromBytes(NextBytes(t)) = 0 THEN inp'[t].pc = "finally"
                   ELSE inp'[t].pc = "data" /\ inp'[t].n = FromBytes(NextBytes(t))

\* recv returned b'': None is returned, whatever was gathered.
C21_Failure ==
    \A t \in Conns :
        (InRecvAll(t) /\ RecvOutcome(inp[t].c) = "eof" /\ inp'[t] # inp[t]) =>
            /\ inp'[t].pc = "finally" /\ inp'[t].cmd = <<>>
            /\ inLog' = inLog /\ conn' = conn

C21_RecvAllExact ==
    /\ []C21_Gathering
    /\ [][C21_Result /\ C21_Failure]_vars
    /\ [](\A i \in 1..Len(inLog) : inLog[i].cmd = sentLog[i].text)

\* A command was returned whole; then the remote end was gone in the middle
\* of a message, the loop consumed what there was of it and ended.
C21_Witness ==
    /\ Len(sentLog) >= 2 /\ Last(sentLog).origin = "cut"
    /\ Len(inLog) = Len(sentLog) - 1
    /\ Len(inLog[1].cmd) > 1
    /\ conn[1].rbuf = <<>> /\ conn[1].peer = "fin"
    /\ inp[1].pc = "done"

(***************************************************************************)
(* C22: each direction keeps the order of its messages.  The payloads the  *)
(* consumer has taken from the latest-frame buffer are, in the order       *)
(* taken, a subsequence of the frames the remote host sent in the order    *)
(* sent: each is one whole frame, none is taken twice, none after a newer  *)
(* one.  The commands the input loop has executed are, in order, the       *)
(* messages the remote viewer wrote first, each with the injection call    *)
(* its own text gives.                                                     *)
(***************************************************************************)
RECURSIVE IsSubsequence(_, _)
IsSubsequence(a, b) ==
    IF a = <<>> THEN TRUE
    ELSE IF b = <<>> THEN FALSE
    ELSE IF Head(a) = Head(b) THEN IsSubsequence(Tail(a), Tail(b))
    ELSE IsSubsequence(a, Tail(b))

TakenPayloads == [i \in 1..Len(frameLog.taken) |-> frameLog.taken[i].data]

C22_FramesInOrder == IsSubsequence(TakenPayloads, frameLog.sent)

C22_CommandsInOrder ==
    /\ Len(inLog) <= Len(sentLog)
    /\ \A i \in 1..Len(inLog) :
           /\ inLog[i].cmd = sentLog[i].text
           /\ inLog[i].call = ParseCommand(sentLog[i].text).call

ViewerWaiting == \E l \in Runs : lsock[l].fd = "open" /\ lsock[l].backlog > 0

\* The stream loop is back at its test after a send.
FrameSent == \E s \in Runs : srv[s].pc = "stream" /\ last_frame_size > 0

MoveTo100200 == Call("MOUSE_MOVE", <<>>, 100, 200, 0, <<>>)

MoveWritten(i) == i <= Len(sentLog) /\ sentLog[i].text = MoveRecord

MoveInjected(i) == i <= Len(inLog) /\ inLog[i].call = MoveTo100200

C23_OneCallPerRecord ==
    \A i \in 1..Len(inLog) : MoveInjected(i) <=> MoveWritten(i)

ConsumedPayload == frameLog.taken # <<>> /\ frameLog.taken[1].data # <<>>

C23_EndToEnd ==
    /\ ViewerWaiting ~> FrameSent
    /\ \A i \in 1..MaxMsgs : MoveWritten(i) ~> MoveInjected(i)
    /\ []C23_OneCallPerRecord
    /\ is_client_connected ~> ConsumedPayload

\* The host has sent a frame to the viewer that connected, and the one
\* MOUSE_MOVE|100|200 written, after another command, was executed once.
C23_Witness ==
    /\ FrameSent /\ conn[1].fd = "open"
    /\ Len(sentLog) = 2 /\ ~MoveWritten(1) /\ MoveWritten(2)
    /\ Len(inLog) = 2 /\ inLog[2].call = MoveTo100200 /\ inLog[1].call # MoveTo100200

(***************************************************************************)
(* C24: when the bind or the listen of a server thread fails, the start    *)
(* fails once: the thread emits the error notification "Failed to start    *)
(* server", goes to its finally block without calling accept and without   *)
(* trying again, and ends with is_server_running false and its socket      *)
(* closed.                                                                 *)
(***************************************************************************)
BindFailed(s) == lsock[s].fd = "unbound"

Ending == {"finally", "fclose", "done"}

C24_Reported ==
    \A s \in Runs :
        (srv[s].pc = "setup" /\ BindFailed(s)') =>
            (srv'[s].pc = "finally" /\ FailedStartNote \in status')

\* From its finally block a server thread only ends: it does not come back
\* to the bind or to accept.
C24_NoRetry ==
    \A s \in Runs : srv[s].pc \in Ending => srv'[s].pc \in Ending

C24_FlagCleared ==
    \A s \in Runs : (srv[s].pc = "finally" /\ srv'[s].pc # "finally") => ~is_server_running'

C24_BindFailureFailsOnce ==
    /\ [][C24_Reported /\ C24_NoRetry /\ C24_FlagCleared]_vars
    /\ [](\A s \in Runs : BindFailed(s) => srv[s].pc \in {"finally", "fclose"})
    /\ \A s \in Runs :
           BindFailed(s) ~> (srv[s].pc = "done" /\ lsock[s].fd = "closed"
                               /\ ~is_server_running /\ server_socket = NoObj)

\* The first start failed at its bind: the thread has ended, nothing was
\* accepted, and no other thread was started.
C24_Witness ==
    /\ FailedStartNote \in status
    /\ srv[1].pc = "done" /\ lsock[1].fd = "closed" /\ lsock[1].backlog = 0
    /\ ~is_server_running /\ server_socket = NoObj
    /\ \A c \in Conns : conn[c].fd = "unused"
    /\ \A s \in Runs : s # 1 => srv[s].pc = "unborn"
    /\ ui = "idle"

(***************************************************************************)
(* C25: every malformed record the input loop has executed, one with the   *)
(* wrong number of fields for its type or one with a field that is no      *)
(* integer where an integer is due, gave a diagnostic notification and no  *)
(* injection call.                                                         *)
(***************************************************************************)
\* The number of parts, the type among them, of a record of the grammar.
Arity(cmd_type) ==
    IF cmd_type = Utf8("MOUSE_MOVE") THEN 3
    ELSE IF cmd_type \in {Utf8("MOUSE_DOWN"), Utf8("MOUSE_UP"), Utf8("MOUSE_CLICK")} THEN 4
    ELSE 2

BadFieldCount(cmd) ==
    /\ Utf8Ok(cmd)
    /\ LET parts == Split(cmd, Delimiter)
       IN  /\ parts[1] \in {Utf8(t) : t \in TypeNames}
           /\ Len(parts) # Arity(parts[1])

C25_MalformedReported ==
    \A i \in 1..Len(inLog) :
        (BadFieldCount(inLog[i].cmd) \/ HasNonIntegerField(inLog[i].cmd)) =>
            (inLog[i].note # "" /\ inLog[i].call = NoCall)

(***************************************************************************)
(* C26: the store of the receive thread and the take-and-clear of the      *)
(* consumer never happen in one step; every payload is returned by a       *)
(* consume at most once; a payload stored after the latest take is still   *)
(* in the buffer; and while the consumer decodes, a receive thread that    *)
(* has the rest of a frame at hand can store it.                           *)
(***************************************************************************)
C26_TakenOnce ==
    \A i, j \in 1..Len(frameLog.taken) :
        /\ \E k \in 1..Len(frameLog.stored) : frameLog.stored[k] = frameLog.taken[i].data
        /\ frameLog.taken[i].data = frameLog.taken[j].data => i = j

C26_NotClearedByTake ==
    (/\ frameLog.stored # <<>>
     /\ \A i \in 1..Len(frameLog.taken) : frameLog.taken[i].stored < Len(frameLog.stored))
        => latest_frame_data = frameLog.stored[Len(frameLog.stored)]

C26_Exclusive ==
    /\ frameLog'.taken # frameLog.taken =>
           /\ frameLog'.stored = frameLog.stored
           /\ latest_frame_data # NoBytes
           /\ frame_data' = latest_frame_data
           /\ latest_frame_data' = NoBytes
    /\ frameLog'.stored # frameLog.stored =>
           /\ frameLog'.taken = frameLog.taken
           /\ latest_frame_data' = frameLog'.stored[Len(frameLog'.stored)]
           /\ frame_data' = frame_data
    /\ (latest_frame_data # NoBytes /\ latest_frame_data' = NoBytes) =>
           frameLog'.taken # frameLog.taken

C26_StoreWhileDecoding ==
    \A r \in Sessions :
        (/\ ui = "decode"
         /\ rcv[r].pc = "data"
         /\ RecvOutcomeOn(vsock, rcv[r].sock) = "bytes")
            => ENABLED RcvBytes(r, 1)

C26_LockedBuffer ==
    /\ [](C26_TakenOnce /\ C26_NotClearedByTake /\ C26_StoreWhileDecoding)
    /\ [][C26_Exclusive]_vars

\* The consumer is decoding the first frame and the second one has been
\* stored meanwhile.
C26_Witness ==
    /\ ui = "decode"
    /\ Len(frameLog.taken) = 1
    /\ Len(frameLog.stored) = 2
    /\ frame_data = frameLog.stored[1]
    /\ latest_frame_data = frameLog.stored[2]

(***************************************************************************)
(* C27: the controller adjusts the quality only after a frame was sent, so *)
(* the first frame of the stream is encoded at the initial quality 70:     *)
(* when the encoder is reached and no frame was encoded before (the size   *)
(* of the last frame is still 0), the quality is 70.                       *)
(***************************************************************************)
InitialQuality == 70

C27_FirstFrameAtInitial ==
    \A s \in Runs :
        (srv[s].pc = "encode" /\ last_frame_size = 0) => jpeg_quality = InitialQuality

(***************************************************************************)
(* C28: the input loop of a connection does not touch a later connection:  *)
(* when the handler thread of a connection ends while the stream loop is   *)
(* serving another connection, accepted after it, the step leaves the      *)
(* streaming flag as it was.                                               *)
(***************************************************************************)
\* The stream loop is running for a connection other than thread t's.
ServingLater(t) ==
    /\ server_connection # NoObj
    /\ inp[t].c # server_connection
    /\ inp[t].c < server_connection
    /\ \E s \in Runs : InStreamLoop(s)

C28_LaterConnectionUntouched ==
    [][\A t \in Conns :
          (InputAlive(t) /\ inp'[t].pc = "done" /\ ServingLater(t))
              => is_streaming' = is_streaming]_vars

(***************************************************************************)
(* C29: while the UI thread and a receive thread are both in the body of   *)
(* stop_client_session, no step ends either call with an exception: the    *)
(* receive thread does not die, and the call of the UI thread does not end *)
(* at the close of a socket that is no longer there.                       *)
(***************************************************************************)
TeardownBody == {"sc_flags", "sc_close", "sc_join", "sc_finish"}

BothInTeardown(r) == ui \in TeardownBody /\ rcv[r].pc \in TeardownBody

C29_ConcurrentTeardown ==
    [][\A r \in Sessions :
          BothInTeardown(r) =>
              /\ rcv'[r].pc # "died"
              /\ ~(ui = "sc_close" /\ client_socket = NoObj /\ ui' = "idle")]_vars

(***************************************************************************)
(* The viewer role with frames that tell their connection: the last byte   *)
(* of a frame sent on connection v is 16 * v + its number among the frames *)
(* sent.                                                                   *)
(***************************************************************************)
SessionTag(v, n) == 16 * v + n

SessionOf(payload) == payload[Len(payload)] \div 16

RemoteHostTagged ==
    \E v \in Sessions :
        \/ RemoteSendFrame(v, Frame("jpeg", SessionTag(v, Len(frameLog.sent) + 1)))
        \/ RemoteClose(v)

NextSessions ==
    \/ ClientButtons
    \/ ReceiveThreads
    \/ Teardowns(BOOLEAN)
    \/ RemoteHostTagged

SpecSessions == Init /\ [][NextSessions]_vars

(***************************************************************************)
(* C30: a payload received in one viewer session is not returned by a      *)
(* consume of a later session: whenever the consumer takes a payload, the  *)
(* payload was sent on the connection of the session that is connected.    *)
(***************************************************************************)
C30_TakenFromThisSession ==
    [][frameLog'.taken # frameLog.taken =>
          SessionOf(latest_frame_data) = client_socket]_vars

(***************************************************************************)
(* One process in which the four calls come in any order: start_server is  *)
(* called whenever no thread of an earlier server run is left, and         *)
(* start_client whenever no receive thread of an earlier session is left,  *)
(* whatever the other role is doing.  No remote viewer connects to the     *)
(* host; the remote host of a viewer session sends frames and closes.      *)
(***************************************************************************)
HostQuiet ==
    /\ \A s \in Runs : ~ServerAlive(s)
    /\ \A t \in Conns : ~InputAlive(t)

ViewerQuiet == \A r \in Sessions : ~ReceiverAlive(r)

\* A step of a server thread to whose socket nobody connects.
LonelyServerStep(s) ==
    \/ \E port_free \in BOOLEAN : SrvSetup(s, port_free)
    \/ SrvLoop(s)
    \/ SrvAcceptTimeout(s)
    \/ SrvAcceptError(s)
    \/ SrvFinally(s)
    \/ SrvFinallyClose(s)

NextRoles ==
    \/ HostQuiet /\ StartServer
    \/ StartServerRefused
    \/ StopServer
    \/ StopServerRefused
    \/ StopServerSock
    \/ StopServerCloseSock
    \/ \E ended \in BOOLEAN : StopServerJoinStream(ended)
    \/ \E ended \in BOOLEAN : StopServerJoinInput(ended)
    \/ \E s \in Runs : LonelyServerStep(s)
    \/ \E outcome \in ConnectOutcomes : ViewerQuiet /\ StartClient(outcome)
    \/ \E ip_given \in BOOLEAN : StartClientRefused(ip_given)
    \/ StopClientSession
    \/ StopClientSessionRefused
    \/ UpdateTake
    \/ UpdateDecode
    \/ ReceiveThreads
    \/ Teardowns(BOOLEAN)
    \/ RemoteHost({"jpeg"})

SpecRoles == Init /\ [][NextRoles]_vars

(***************************************************************************)
(* C31: the server role and the client role are never active at once:      *)
(* is_server_running and is_client_connected are never both true.          *)
(***************************************************************************)
C31_OneRoleAtATime == ~(is_server_running /\ is_client_connected)

(***************************************************************************)
(* C32: when the viewer is not connected and neither start_client nor a    *)
(* teardown is in progress (the UI thread is idle and no receive thread is *)
(* left), no client socket is held: client_socket is None and no socket    *)
(* that start_client created is open.                                      *)
(***************************************************************************)
C32_NoSocketHeld ==
    (~is_client_connected /\ ui = "idle" /\ ViewerQuiet) =>
        /\ client_socket = NoObj
        /\ \A v \in Sessions : vsock[v].fd # "open"

====
